---------------------------- MODULE Spec2Model ----------------------------
(***************************************************************************)
(* A model of the tools of esengine/microes, the binding generators and    *)
(* the font packer:                                                        *)
(*   tools/eht.py                (CppParser, TypeSystem, EmbindGenerator,  *)
(*                                TypeScriptGenerator, main)               *)
(*   tools/generate_bindings.py  (ComponentParser, EmscriptenGenerator,    *)
(*                                TypeScriptGenerator, QuickJSGenerator,   *)
(*                                main)                                    *)
(*   tools/pack_bitmap_font.py   (pack_font, main)                         *)
(*                                                                         *)
(* Four specifications share the variables:                                *)
(*   ScanSpec  one file text scanned by parse_file of either tool          *)
(*   Spec      a run of main of either tool: parse_directory over the      *)
(*             input roots, the empty-schema test, the backends            *)
(*   EmitSpec  a schema handed to the generators of one tool, which run    *)
(*             in any order and any number of times                        *)
(*   PackSpec  a call of pack_font from main of tools/pack_bitmap_font.py: *)
(*             the glyphs loaded, the atlas sized, the glyphs placed row   *)
(*             by row, the retry or the break at a full atlas, the save    *)
(*                                                                         *)
(* Text is modelled as a sequence of tokens.  A token is the text one      *)
(* regular expression of the parsers matches as a whole, or one delimiter  *)
(* character:                                                              *)
(*   "C"  ES_COMPONENT() struct Name        (a RE_COMPONENT match)         *)
(*   "E"  ES_ENUM() enum class Name         (a RE_ENUM match)              *)
(*   "P"  ES_PROPERTY() f32 x;              (a RE_PROPERTY match)          *)
(*   "N"  namespace ns {                    (a RE_NAMESPACE match)         *)
(*   "{"  "}"  ";"                          the delimiter characters       *)
(* Adjacent tokens are adjacent characters, so "}" followed by ";" is the  *)
(* text '};'.  An entity parsed from a text is named by the position of    *)
(* its marker or property token.  No token is an ES_METHOD match, so the   *)
(* methods of every component are empty.  The body of an enum is cut       *)
(* finer, into the words and delimiters RE_ENUM_VALUE tells apart.         *)
(* A document is a sequence of lines; a line is a record of what varies in *)
(* its text, and a run of constant lines is one line of its own kind.      *)
(* Positions are 1-based: Python's index p is position p + 1, and the      *)
(* Python slice content[a:b] is the positions a+1 .. b.                    *)
(***************************************************************************)
EXTENDS Integers, Sequences, FiniteSets, TLC

VARIABLES
    pc,          \* position of the run: what has been done so far
    tool,        \* "eht" (tools/eht.py) or "gb" (tools/generate_bindings.py)
    content,     \* the text of the file being scanned (token sequence)
    components,  \* parser state: the Component records collected so far
    enums,       \* parser state: the Enum records collected so far
    warnings,    \* the warnings printed so far
    roots,       \* the input roots: for each, the files rglob yields, in order
    rootIdx,     \* how many input roots main has passed to parse_directory
    dirs,        \* the directories that exist
    step,        \* the statement of Program(tool) main is at, 0 before it
    log,         \* what main has done to the outside: mkdir, generate, write
    doc,         \* the lines of the document an emitter returned
    types,       \* for each TypeSystem main has built, the enums it was given
    given,       \* the schema as it was when the first emitter was handed it
    pack,        \* the call of pack_font: its arguments and its local variables
    exitCode     \* the value main returned, -1 while it has returned nothing

vars == <<pc, tool, content, components, enums, warnings,
          roots, rootIdx, dirs, step, log, doc, types, given, exitCode,
          pack>>

scanVars == <<content>>

mainVars == <<roots, rootIdx, dirs, step, log, types, given, exitCode,
             pack>>

emitVars == <<doc>>

\* the value of pack in a run of the binding generators, which do not call
\* pack_font
NoPack ==
    [glyph_data |-> <<>>, padding |-> 0, atlas_size |-> 0, atlas_width |-> 0,
     atlas_height |-> 0, x |-> 0, y |-> 0, row_height |-> 0, glyph |-> 0,
     glyphs |-> <<>>, calls |-> 0, saved |-> FALSE, result |-> "none"]

(***************************************************************************)
(* Bounds of the model.                                                    *)
(***************************************************************************)
\* longest file text of the scanning specification, in tokens
MaxLen == 6

Tokens == {"C", "E", "P", "N", "{", "}", ";"}

\* the texts of the scanning specification; they leave out "N", which the
\* brace scans read as they read "{"
Texts == UNION {[1..n -> Tokens \ {"N"}] : n \in 0..MaxLen}

(***************************************************************************)
(* Helpers on positions.                                                   *)
(***************************************************************************)
Min(S) == CHOOSE x \in S : \A y \in S : x <= y

\* the elements of a finite set of integers as an increasing sequence
RECURSIVE Ascending(_)
Ascending(S) ==
    IF S = {} THEN <<>> ELSE <<Min(S)>> \o Ascending(S \ {Min(S)})

\* the tokens holding the character '{': the brace itself, and the namespace
\* header  namespace ns {  (a RE_NAMESPACE match)
IsOpen(tok) == tok \in {"{", "N"}

\* str.find('{', start): the first position >= from holding a '{', 0 when
\* there is none (Python's -1)
FindOpen(text, from) ==
    LET hits == {j \in from..Len(text) : IsOpen(text[j])}
    IN  IF hits = {} THEN 0 ELSE Min(hits)

\* str.find('};', start): the first position >= from of a "}" directly
\* followed by ";", 0 when there is none
FindCloseSemi(text, from) ==
    LET hits == {j \in from..(Len(text) - 1) :
                    text[j] = "}" /\ text[j + 1] = ";"}
    IN  IF hits = {} THEN 0 ELSE Min(hits)

\* re.finditer of a pattern whose matches are single tokens: the positions of
\* tok inside from..to, in text order
Matches(text, tok, from, to) ==
    Ascending({j \in from..to : j <= Len(text) /\ text[j] = tok})

\* the \w+ words inside a token, in order (RE_ENUM_VALUE matches each of them)
WordsOf(tok) ==
    CASE tok = "C" -> <<"ES_COMPONENT", "struct", "Name">>
      [] tok = "E" -> <<"ES_ENUM", "enum", "class", "Name">>
      [] tok = "P" -> <<"ES_PROPERTY", "f32", "x">>
      [] tok = "N" -> <<"namespace", "ns">>
      [] OTHER     -> <<>>

\* the lexemes of a token: its words, and the delimiter it ends with; every
\* other token is one lexeme
LexOf(tok) ==
    CASE tok \in {"C", "E"} -> WordsOf(tok)
      [] tok = "P"          -> WordsOf(tok) \o <<";">>
      [] tok = "N"          -> WordsOf(tok) \o <<"{">>
      [] OTHER              -> <<tok>>

\* the lexemes of the positions from..to of a text, in order
RECURSIVE Lexemes(_, _, _)
Lexemes(text, from, to) ==
    IF from > to THEN <<>>
    ELSE LexOf(text[from]) \o Lexemes(text, from + 1, to)

\* a lexeme made of word characters (\w+)
IsWord(lex) == lex \notin {"{", "}", ";", "=", ",", "<<"}

\* the leading decimal digits of a word (what \d+ matches at its start), and
\* what is left of the word after them
DigitsOf(lex) ==
    CASE lex \in {"1", "2", "5"} -> lex
      [] lex = "0x10"           -> "0"
      [] OTHER                  -> ""

AfterDigits(lex) == IF lex = "0x10" THEN "x10" ELSE ""

\* the declared type of the property a "P" token declares
PropertyType(tok) == <<"f32">>


(***************************************************************************)
(* tools/eht.py: CppParser                                                 *)
(***************************************************************************)
\* RE_NAMESPACE.search(content): the namespace of the first namespace header
CppParser_namespace(text) ==
    IF \E j \in 1..Len(text) : text[j] = "N" THEN "ns" ELSE ""

\* the properties RE_PROPERTY finds in the positions from..to of text
CppParser_properties(text, from, to) ==
    LET at == Matches(text, "P", from, to)
    IN  [k \in 1..Len(at) |->
            [name |-> at[k], cpp_type |-> PropertyType(text[at[k]]),
             default_value |-> "None"]]

\* a scan that stops at the first closing brace instead of counting
CppParser_body_end_first_close(text, body_end, brace_count) ==
    LET hits == {j \in body_end..Len(text) : text[j] = "}"}
    IN  IF hits = {} THEN Len(text) + 1 ELSE Min(hits) + 1

\* the while loop of _parse_components: body_end is the position examined
\* next; the result is the position after the last one examined
RECURSIVE CppParser_body_end(_, _, _)
CppParser_body_end(text, body_end, brace_count) ==
    IF body_end <= Len(text) /\ brace_count > 0
    THEN CppParser_body_end(text, body_end + 1,
            IF IsOpen(text[body_end]) THEN brace_count + 1
            ELSE IF text[body_end] = "}" THEN brace_count - 1
            ELSE brace_count)
    ELSE body_end

\* the Component _parse_components builds for the marker at position at
CppParser_component(text, at, filepath) ==
    LET body_start == FindOpen(text, at + 1)
        body_end   == CppParser_body_end(text, body_start + 1, 1)
    IN  [name |-> at, namespace |-> CppParser_namespace(text),
         header_path |-> filepath,
         body_start |-> body_start, body_end |-> body_end - 1,
         properties |-> CppParser_properties(text, body_start, body_end - 1)]

\* _parse_components: the components it appends, in marker order; a marker
\* with no '{' after it is passed over (continue)
CppParser_parse_components(text, filepath) ==
    LET marks == Matches(text, "C", 1, Len(text))
        kept  == SelectSeq(marks, LAMBDA i : FindOpen(text, i + 1) # 0)
    IN  [k \in 1..Len(kept) |-> CppParser_component(text, kept[k], filepath)]

\* RE_ENUM_VALUE.finditer over the lexemes from the i-th on: a match is a
\* word, then '=' and decimal digits when they follow it, then a comma when
\* one follows.  rest is what is left of the i-th lexeme when the match
\* before has taken its leading digits, "" when it is whole.
RECURSIVE RE_ENUM_VALUE_finditer(_, _, _)
RE_ENUM_VALUE_finditer(lexemes, i, rest) ==
    IF i > Len(lexemes) THEN <<>>
    ELSE IF ~ IsWord(lexemes[i])
    THEN RE_ENUM_VALUE_finditer(lexemes, i + 1, "")
    ELSE LET word == IF rest # "" THEN rest ELSE lexemes[i]
         IN  <<word>> \o
             (IF /\ i + 2 <= Len(lexemes)
                 /\ lexemes[i + 1] = "="
                 /\ DigitsOf(lexemes[i + 2]) # ""
              THEN IF AfterDigits(lexemes[i + 2]) = ""
                   THEN RE_ENUM_VALUE_finditer(lexemes, i + 3, "")
                   ELSE RE_ENUM_VALUE_finditer(lexemes, i + 2,
                                               AfterDigits(lexemes[i + 2]))
              ELSE RE_ENUM_VALUE_finditer(lexemes, i + 1, ""))

\* the values RE_ENUM_VALUE finds in the positions from..to (enum_body)
CppParser_enum_values(text, from, to) ==
    RE_ENUM_VALUE_finditer(Lexemes(text, from, to), 1, "")

\* the Enum _parse_enums builds for the marker at position at
CppParser_enum(text, at) ==
    LET brace_start == FindOpen(text, at + 1)
        brace_end   == FindCloseSemi(text, brace_start)
    IN  [name |-> at, namespace |-> CppParser_namespace(text),
         underlying_type |-> "int",
         brace_start |-> brace_start, brace_end |-> brace_end,
         values |-> CppParser_enum_values(text, brace_start + 1, brace_end - 1)]

\* _parse_enums: the enums it appends, in marker order; a marker with no '{'
\* after it, or with no '};' after that brace, is passed over (continue)
CppParser_parse_enums(text) ==
    LET marks == Matches(text, "E", 1, Len(text))
        kept  == SelectSeq(marks, LAMBDA i :
                    /\ FindOpen(text, i + 1) # 0
                    /\ FindCloseSemi(text, FindOpen(text, i + 1)) # 0)
    IN  [k \in 1..Len(kept) |-> CppParser_enum(text, kept[k])]

(***************************************************************************)
(* tools/generate_bindings.py: ComponentParser                             *)
(***************************************************************************)
\* the for loop of parse_file that looks for the closing brace: i is the
\* position examined; the result is the position the body stops before
\* (component_end), which stays component_start when the loop never breaks
RECURSIVE ComponentParser_component_end(_, _, _, _)
ComponentParser_component_end(text, i, brace_count, component_start) ==
    IF i > Len(text) THEN component_start
    ELSE IF IsOpen(text[i])
    THEN ComponentParser_component_end(text, i + 1, brace_count + 1,
                                       component_start)
    ELSE IF text[i] = "}"
    THEN IF brace_count - 1 = -1 THEN i
         ELSE ComponentParser_component_end(text, i + 1, brace_count - 1,
                                            component_start)
    ELSE ComponentParser_component_end(text, i + 1, brace_count,
                                       component_start)

\* the properties PROPERTY_PATTERN finds in the positions from..to
ComponentParser_properties(text, from, to) ==
    LET at == Matches(text, "P", from, to)
    IN  [k \in 1..Len(at) |->
            [name |-> at[k], type |-> PropertyType(text[at[k]]),
             default_value |-> "None"]]

\* the Component parse_file builds for the marker at position at
ComponentParser_component(text, at, filepath) ==
    LET component_start == at + 1
        component_end   ==
            ComponentParser_component_end(text, component_start, 0,
                                          component_start)
    IN  [name |-> at, namespace |-> CppParser_namespace(text),
         header_path |-> filepath,
         body_start |-> component_start, body_end |-> component_end - 1,
         properties |->
            ComponentParser_properties(text, component_start,
                                       component_end - 1),
         methods |-> <<>>]

\* parse_file: the components it appends, one for every marker
ComponentParser_parse_file(text, filepath) ==
    LET marks == Matches(text, "C", 1, Len(text))
    IN  [k \in 1..Len(marks) |->
            ComponentParser_component(text, marks[k], filepath)]

(***************************************************************************)
(* The scanning specification: one file text, scanned once by the tool.    *)
(*                                                                         *)
(* Besides the texts over the tokens, the texts are the declarations of    *)
(* one enum: ES_ENUM() enum class Name { enumerators };  An enumerator is   *)
(* an identifier alone or with an initializer: a decimal number, a         *)
(* hexadecimal number, an expression, or the first enumerator.  Each is a  *)
(* sequence of lexemes (identifiers, numbers, "=", "<<"); enumerators are  *)
(* separated by ",".                                                       *)
(***************************************************************************)
\* most enumerators of a declared enum
MaxValues == 2

EnumeratorNames == <<"North", "East", "South", "West">>

Initializers == {"none", "decimal", "hexadecimal", "expression", "reference"}

\* the k-th enumerator with the given initializer
Enumerator(k, init) ==
    <<EnumeratorNames[k]>> \o
    CASE init = "none"        -> <<>>
      [] init = "decimal"     -> <<"=", "5">>
      [] init = "hexadecimal" -> <<"=", "0x10">>
      [] init = "expression"  -> <<"=", "1", "<<", "2">>
      [] init = "reference"   -> <<"=", EnumeratorNames[1]>>

\* the enumerators from the k-th on, with the given initializers
RECURSIVE EnumBody(_, _)
EnumBody(inits, k) ==
    IF k > Len(inits) THEN <<>>
    ELSE Enumerator(k, inits[k])
         \o (IF k < Len(inits) THEN <<",">> ELSE <<>>)
         \o EnumBody(inits, k + 1)

\* the declarations of an enum of up to MaxValues enumerators; only an
\* enumerator after the first refers to the first
EnumTexts ==
    { <<"E", "{">> \o EnumBody(inits, 1) \o <<"}", ";">> :
        inits \in { f \in UNION {[1..n -> Initializers] : n \in 0..MaxValues} :
                      Len(f) >= 1 => f[1] # "reference" } }

ScanInit ==
    /\ pc = "start"
    /\ tool \in {"eht", "gb"}
    /\ content \in Texts \cup EnumTexts
    /\ components = <<>>
    /\ enums = <<>>
    /\ warnings = <<>>
    /\ roots = <<>> /\ rootIdx = 0 /\ dirs = {} /\ step = 0 /\ log = <<>>
    /\ exitCode = -1
    /\ doc = <<>>
    /\ types = <<>>
    /\ pack = NoPack
    /\ given = [components |-> <<>>, enums |-> <<>>]

\* CppParser.parse_file on the text
CppParserParseFile ==
    /\ pc = "start" /\ tool = "eht"
    /\ enums' = enums \o CppParser_parse_enums(content)
    /\ components' = components \o CppParser_parse_components(content, "f")
    /\ pc' = "parsed"
    /\ UNCHANGED <<tool, content, warnings, mainVars, emitVars>>

\* ComponentParser.parse_file on the text
ComponentParserParseFile ==
    /\ pc = "start" /\ tool = "gb"
    /\ components' = components \o ComponentParser_parse_file(content, "f")
    /\ pc' = "parsed"
    /\ UNCHANGED <<tool, content, enums, warnings, mainVars, emitVars>>

ScanNext == CppParserParseFile \/ ComponentParserParseFile

ScanSpec == ScanInit /\ [][ScanNext]_vars

(***************************************************************************)
(* parse_directory and main of both tools.                                 *)
(*                                                                         *)
(* A file is [readable, text]: read_text raises on a file that is not      *)
(* readable (an I/O or decoding error), before parse_file has changed      *)
(* anything.  A root is the sequence of files rglob('*.hpp') yields.       *)
(***************************************************************************)
\* most files under one input root
MaxFiles == 2

\* most input roots of one run
MaxRoots == 2

FileKinds ==
    { [readable |-> FALSE, text |-> <<>>],
      [readable |-> TRUE,  text |-> <<"N", "E", "{", "}", ";", "}">>],
      [readable |-> TRUE,  text |-> <<"N", "C", "{", "P", "}", ";", "}">>] }

Listings == UNION {[1..n -> FileKinds] : n \in 0..MaxFiles}

\* the parser state: what CppParser / ComponentParser hold, and the warnings
ParserState == [components |-> components, enums |-> enums,
                warnings |-> warnings]

\* CppParser.parse_file inside the try of parse_directory
CppParser_parse_file(st, file, path) ==
    IF file.readable
    THEN [st EXCEPT
            !.enums = @ \o CppParser_parse_enums(file.text),
            !.components = @ \o CppParser_parse_components(file.text, path)]
    ELSE [st EXCEPT !.warnings = Append(@, <<"Failed to parse", path>>)]

\* parse_directory with the try around the whole loop: the first file that
\* fails ends the scan of the directory
RECURSIVE CppParser_parse_directory_try_outside(_, _, _, _)
CppParser_parse_directory_try_outside(st, listing, root, k) ==
    IF k > Len(listing) THEN st
    ELSE IF ~ listing[k].readable
    THEN CppParser_parse_file(st, listing[k], <<root, k>>)
    ELSE CppParser_parse_directory_try_outside(
            CppParser_parse_file(st, listing[k], <<root, k>>),
            listing, root, k + 1)

\* CppParser.parse_directory: the loop over the files from the k-th on
RECURSIVE CppParser_parse_directory(_, _, _, _)
CppParser_parse_directory(st, listing, root, k) ==
    IF k > Len(listing) THEN st
    ELSE CppParser_parse_directory(
            CppParser_parse_file(st, listing[k], <<root, k>>),
            listing, root, k + 1)

\* ComponentParser.parse_file inside the try of parse_directory
ComponentParser_try_parse_file(st, file, path) ==
    IF file.readable
    THEN [st EXCEPT
            !.components = @ \o ComponentParser_parse_file(file.text, path)]
    ELSE [st EXCEPT !.warnings = Append(@, <<"Failed to parse", path>>)]

\* ComponentParser.parse_directory: the loop over the files from the k-th on
RECURSIVE ComponentParser_parse_directory(_, _, _, _)
ComponentParser_parse_directory(st, listing, root, k) ==
    IF k > Len(listing) THEN st
    ELSE ComponentParser_parse_directory(
            ComponentParser_try_parse_file(st, listing[k], <<root, k>>),
            listing, root, k + 1)

\* what main does once the schema has components, in order; a write names
\* the directory it writes into
Program(t) ==
    IF t = "eht"
    THEN << <<"mkdir", "output">>,
            <<"generate", "EmbindGenerator">>,
            <<"write", "output", "WebBindings.generated.cpp">>,
            <<"mkdir", "ts_output">>,
            <<"generate", "TypeScriptGenerator">>,
            <<"write", "ts_output", "wasm.generated.ts">>,
            <<"return", 0>> >>
    ELSE << <<"mkdir", "output">>,
            <<"generate", "EmscriptenGenerator">>,
            <<"write", "output", "WebBindings.generated.cpp">>,
            <<"generate", "TypeScriptGenerator">>,
            <<"write", "bindings", "esengine.d.ts">>,
            <<"generate", "QuickJSGenerator">>,
            <<"write", "src/esengine/scripting/bindings",
              "ECSBindings.generated.cpp">>,
            <<"return", 0>> >>

\* the directories main writes into
OutputDirs(t) ==
    {Program(t)[k][2] : k \in {j \in 1..Len(Program(t)) :
                                Program(t)[j][1] = "write"}}

\* the directories main creates itself
CreatedDirs(t) ==
    {Program(t)[k][2] : k \in {j \in 1..Len(Program(t)) :
                                Program(t)[j][1] = "mkdir"}}

\* the input roots a command line can name: eht takes one or more
\* (nargs='+'), generate_bindings exactly one
RootLists(t) ==
    UNION {[1..n -> Listings] : n \in 1..(IF t = "eht" THEN MaxRoots ELSE 1)}

Init ==
    /\ pc = "parse"
    /\ tool \in {"eht", "gb"}
    /\ roots \in RootLists(tool)
    /\ rootIdx = 0
    \* a directory main creates itself (exist_ok=True) starts absent; one it
    \* only writes into may or may not exist
    /\ dirs \in SUBSET (OutputDirs(tool) \ CreatedDirs(tool))
    /\ content = <<>>
    /\ components = <<>>
    /\ enums = <<>>
    /\ warnings = <<>>
    /\ step = 0
    /\ log = <<>>
    /\ doc = <<>>
    /\ types = <<>>
    /\ pack = NoPack
    /\ given = [components |-> <<>>, enums |-> <<>>]
    /\ exitCode = -1

\* main's loop over the input roots: one parse_directory call
ParseDirectory ==
    /\ pc = "parse" /\ rootIdx < Len(roots)
    /\ LET st == IF tool = "eht"
                 THEN CppParser_parse_directory(
                        ParserState, roots[rootIdx + 1], rootIdx + 1, 1)
                 ELSE ComponentParser_parse_directory(
                        ParserState, roots[rootIdx + 1], rootIdx + 1, 1)
       IN  /\ components' = st.components
           /\ enums' = st.enums
           /\ warnings' = st.warnings
    /\ rootIdx' = rootIdx + 1
    /\ UNCHANGED <<pc, tool, content, roots, dirs, step, log, exitCode,
                   doc, types, given, pack>>

\* a test of the schema that also wants the enums to be missing
SchemaEmpty_and_no_enums == components = <<>> /\ enums = <<>>

\* if not components
SchemaEmpty == components = <<>>

\* if not components: print the warning and return 1
NoComponents ==
    /\ pc = "parse" /\ rootIdx = Len(roots)
    /\ SchemaEmpty
    /\ warnings' = Append(warnings, <<"No components found!">>)
    /\ exitCode' = 1
    /\ pc' = "done"
    /\ UNCHANGED <<tool, content, components, enums, roots, rootIdx, dirs,
                   step, log,
                   doc, types, given, pack>>

\* a main whose backends are inside the loop over the input roots: it goes
\* on to them after any root once the schema has components
HasComponents_inside_loop ==
    /\ pc = "parse" /\ rootIdx >= 1
    /\ ~ SchemaEmpty
    /\ pc' = "emit"
    /\ step' = 1
    /\ UNCHANGED <<tool, content, components, enums, warnings, roots,
                   rootIdx, dirs, log, exitCode, doc, types, given, pack>>

\* the schema has components: main goes on to the backends
HasComponents ==
    /\ pc = "parse" /\ rootIdx = Len(roots)
    /\ ~ SchemaEmpty
    /\ pc' = "emit"
    /\ step' = 1
    /\ UNCHANGED <<tool, content, components, enums, warnings, roots,
                   rootIdx, dirs, log, exitCode,
                   doc, types, given, pack>>

AtStep(kind) ==
    /\ pc = "emit"
    /\ Program(tool)[step][1] = kind

\* Path.mkdir(parents=True, exist_ok=True)
Mkdir ==
    /\ AtStep("mkdir")
    /\ dirs' = dirs \cup {Program(tool)[step][2]}
    /\ log' = Append(log, Program(tool)[step])
    /\ step' = step + 1
    /\ UNCHANGED <<pc, tool, content, components, enums, warnings, roots,
                   rootIdx, exitCode,
                   doc, types, given, pack>>

\* a generator is built and its generate() called; a generator of eht
\* builds its TypeSystem from the parser's enums (self.types =
\* TypeSystem(enums))
Generate ==
    /\ AtStep("generate")
    /\ types' = IF tool = "eht" THEN Append(types, enums) ELSE types
    /\ log' = Append(log, Program(tool)[step])
    /\ step' = step + 1
    /\ UNCHANGED <<pc, tool, content, components, enums, warnings, roots,
                   rootIdx, dirs, exitCode,
                   doc, given, pack>>

\* Path.write_text into a directory that exists
Write ==
    /\ AtStep("write")
    /\ Program(tool)[step][2] \in dirs
    /\ log' = Append(log, Program(tool)[step])
    /\ step' = step + 1
    /\ UNCHANGED <<pc, tool, content, components, enums, warnings, roots,
                   rootIdx, dirs, exitCode,
                   doc, types, given, pack>>

\* Path.write_text into a directory that does not exist raises
\* FileNotFoundError, which nothing in main catches
WriteRaises ==
    /\ AtStep("write")
    /\ Program(tool)[step][2] \notin dirs
    /\ pc' = "raised"
    /\ UNCHANGED <<tool, content, components, enums, warnings, mainVars,
                   doc>>

\* return 0
Return ==
    /\ AtStep("return")
    /\ exitCode' = Program(tool)[step][2]
    /\ pc' = "done"
    /\ UNCHANGED <<tool, content, components, enums, warnings, roots,
                   rootIdx, dirs, step, log,
                   doc, types, given, pack>>

Next ==
    \/ ParseDirectory
    \/ NoComponents
    \/ HasComponents
    \/ Mkdir
    \/ Generate
    \/ Write
    \/ WriteRaises
    \/ Return

Spec == Init /\ [][Next]_vars

(***************************************************************************)
(* tools/eht.py: TypeSystem                                                *)
(*                                                                         *)
(* A type string is a sequence of atoms, pieces of text cut so that every  *)
(* substring the code looks for ('const', '&', 'Handle', 'resource::',     *)
(* the SKIP_TYPES) is an atom of its own: 'TextureHandle' is               *)
(* <<"Texture", "Handle">>.  Concatenation of strings is \o.               *)
(***************************************************************************)
PRIMITIVE_TYPES ==
    { <<"bool">>, <<"i8">>, <<"i16">>, <<"i32">>, <<"i64">>, <<"u8">>,
      <<"u16">>, <<"u32">>, <<"u64">>, <<"f32">>, <<"f64">>, <<"float">>,
      <<"double">>, <<"int">>, <<"unsigned">> }

GLM_TYPES ==
    { <<"glm::vec2">>, <<"glm::vec3">>, <<"glm::vec4">>, <<"glm::quat">>,
      <<"glm::uvec2">> }

SKIP_TYPES == {"glm::mat4", "std::vector", "std::function"}

\* str.strip() of the blanks at both ends
RECURSIVE Strip(_)
Strip(t) ==
    IF t = <<>> THEN t
    ELSE IF Head(t) = " " THEN Strip(Tail(t))
    ELSE IF t[Len(t)] = " " THEN Strip(SubSeq(t, 1, Len(t) - 1))
    ELSE t

\* TypeSystem.clean_type
TypeSystem_clean_type(cpp_type) ==
    Strip(SelectSeq(cpp_type, LAMBDA a : a # "const" /\ a # "&"))

\* TypeSystem.__init__: the enum names, bare and qualified
TypeSystem_enum_names(enumList) ==
    {enumList[k].name : k \in 1..Len(enumList)}
    \cup {<<enumList[k].namespace, "::">> \o enumList[k].name :
            k \in {j \in 1..Len(enumList) : enumList[j].namespace # ""}}

\* TypeSystem.is_enum
TypeSystem_is_enum(cpp_type, enum_names) ==
    TypeSystem_clean_type(cpp_type) \in enum_names

\* TypeSystem.is_handle
TypeSystem_is_handle(cpp_type) ==
    LET t == TypeSystem_clean_type(cpp_type)
    IN  \/ \E k \in 1..Len(t) : t[k] = "Handle"
        \/ (t # <<>> /\ t[1] = "resource::")

\* TypeSystem.is_skip
TypeSystem_is_skip(cpp_type) ==
    LET t == TypeSystem_clean_type(cpp_type)
    IN  \E skip \in SKIP_TYPES : \E k \in 1..Len(t) : t[k] = skip

\* a needs_wrapper that looks for enum properties only
TypeSystem_needs_wrapper_enum_only(comp, enum_names) ==
    \E k \in 1..Len(comp.properties) :
        TypeSystem_is_enum(comp.properties[k].cpp_type, enum_names)

\* TypeSystem.needs_wrapper
TypeSystem_needs_wrapper(comp, enum_names) ==
    \E k \in 1..Len(comp.properties) :
        \/ TypeSystem_is_enum(comp.properties[k].cpp_type, enum_names)
        \/ TypeSystem_is_handle(comp.properties[k].cpp_type)

\* TypeSystem.get_js_type
TypeSystem_get_js_type(cpp_type, enum_names) ==
    LET t == TypeSystem_clean_type(cpp_type)
    IN  IF TypeSystem_is_handle(t) THEN <<"u32">>
        ELSE IF TypeSystem_is_enum(t, enum_names) THEN <<"i32">>
        ELSE t

\* the keys of CPP_TO_TS
CPP_TO_TS_keys ==
    PRIMITIVE_TYPES \cup GLM_TYPES \cup { <<"std::string">>, <<"Entity">> }

\* CPP_TO_TS[t]
CPP_TO_TS(t) ==
    CASE t = <<"bool">>       -> <<"boolean">>
      [] t = <<"std::string">> -> <<"string">>
      [] t = <<"glm::vec2">>  -> <<"Vec2">>
      [] t = <<"glm::vec3">>  -> <<"Vec3">>
      [] t = <<"glm::vec4">>  -> <<"Vec4">>
      [] t = <<"glm::quat">>  -> <<"Quat">>
      [] t = <<"glm::uvec2">> -> <<"UVec2">>
      [] OTHER                -> <<"number">>

\* a to_typescript that hands an unknown type through under its C++ name
TypeSystem_to_typescript_passthrough(cpp_type, enum_names) ==
    LET t == TypeSystem_clean_type(cpp_type)
    IN  IF t \in CPP_TO_TS_keys THEN CPP_TO_TS(t)
        ELSE IF TypeSystem_is_enum(t, enum_names) \/ TypeSystem_is_handle(t)
        THEN <<"number">>
        ELSE t

\* TypeSystem.to_typescript
TypeSystem_to_typescript(cpp_type, enum_names) ==
    LET t == TypeSystem_clean_type(cpp_type)
    IN  IF t \in CPP_TO_TS_keys THEN CPP_TO_TS(t)
        ELSE IF TypeSystem_is_enum(t, enum_names) \/ TypeSystem_is_handle(t)
        THEN <<"number">>
        ELSE <<"any">>

(***************************************************************************)
(* tools/eht.py: EmbindGenerator._gen_components                           *)
(*                                                                         *)
(* A line of the document is a record: kind names the f-string that made   *)
(* it, comp / prop / type / bind are the values put into it, and term is   *)
(* what was appended to it afterwards (lines[-1] += ';').  The lines about *)
(* an enum carry the enum's name, the value and its number in enum / value *)
(* / num; an include line carries the path in path.  A run of lines that   *)
(* is the same in every document (a header, the math types) is one line    *)
(* named by what it is.                                                    *)
(***************************************************************************)
Line(kind, comp, prop, type, bind) ==
    [kind |-> kind, comp |-> comp, prop |-> prop, type |-> type,
     bind |-> bind, term |-> "",
     enum |-> <<>>, value |-> "", num |-> -1, path |-> <<>>]

Fixed(kind) == Line(kind, "", 0, <<>>, "")

\* a line about an enum, one of its values and the value's number
EnumLine(kind, enum, value, num) ==
    [Fixed(kind) EXCEPT !.enum = enum, !.value = value, !.num = num]

\* the elements of the list taken last to first
RECURSIVE Extend_backwards(_)
Extend_backwards(blocks) ==
    IF blocks = <<>> THEN <<>>
    ELSE Extend_backwards(Tail(blocks)) \o Head(blocks)

\* lines.extend(...) once for every element of a list, in the list's order
RECURSIVE Extend(_)
Extend(blocks) ==
    IF blocks = <<>> THEN <<>> ELSE Head(blocks) \o Extend(Tail(blocks))

\* an include line for the path
IncludeLine(path) == [Fixed("include") EXCEPT !.path = path]

\* the atoms of the paths in the order of their text (str.__lt__ on their
\* first characters)
AtomOrder ==
    <<"../", "../../", "C.hpp", "ecs/A.hpp", "ecs/B.hpp", "include/",
      "src/esengine/", "vendor/">>

AtomRank(atom) == CHOOSE k \in 1..Len(AtomOrder) : AtomOrder[k] = atom

\* a < b for two texts: the first atom they differ in decides, and a text
\* is before every text it is a proper prefix of
RECURSIVE StrLess(_, _)
StrLess(a, b) ==
    IF b = <<>> THEN FALSE
    ELSE IF a = <<>> THEN TRUE
    ELSE IF Head(a) = Head(b) THEN StrLess(Tail(a), Tail(b))
    ELSE AtomRank(Head(a)) < AtomRank(Head(b))

\* the orders a for loop or sorted() may meet the elements of a set in: the
\* iteration order of a set of str changes from process to process
IterationOrders(S) ==
    {f \in [1..Cardinality(S) -> S] :
        \A i, j \in 1..Cardinality(S) : i # j => f[i] # f[j]}

RECURSIVE Insert(_, _)
Insert(line, sorted) ==
    IF sorted = <<>> THEN <<line>>
    ELSE IF ~ StrLess(Head(sorted).path, line.path)
    THEN <<line>> \o sorted
    ELSE <<Head(sorted)>> \o Insert(line, Tail(sorted))

\* list(iterable): the elements as they come
Sorted_as_they_come(lines) == lines

\* sorted(iterable) of include lines
RECURSIVE Sorted(_)
Sorted(lines) ==
    IF lines = <<>> THEN <<>>
    ELSE Insert(Head(lines), Sorted(Tail(lines)))

\* the properties an emitter loop does not pass over (if is_skip: continue)
NotSkipped(comp) ==
    SelectSeq(comp.properties, LAMBDA p : ~ TypeSystem_is_skip(p.cpp_type))

\* the JS struct of one component
Embind_struct(comp, enum_names) ==
    LET ps == NotSkipped(comp)
    IN  <<Line("struct_open", comp.name, 0, <<>>, "JS")>>
        \o [k \in 1..Len(ps) |->
              Line("struct_field", comp.name, ps[k].name,
                   TypeSystem_get_js_type(ps[k].cpp_type, enum_names), "JS")]
        \o <<Fixed("struct_close"), Fixed("blank")>>

\* the fromJS converter of one component
Embind_fromJS(comp, enum_names) ==
    LET ps == NotSkipped(comp)
        t(k) == TypeSystem_clean_type(ps[k].cpp_type)
    IN  <<Line("fromJS_open", comp.name, 0, <<>>, "JS"),
          Line("fromJS_decl", comp.name, 0, <<>>, "full")>>
        \o [k \in 1..Len(ps) |->
              IF TypeSystem_is_handle(t(k))
              THEN Line("fromJS_handle", comp.name, ps[k].name, t(k), "")
              ELSE IF TypeSystem_is_enum(t(k), enum_names)
              THEN Line("fromJS_enum", comp.name, ps[k].name, t(k), "")
              ELSE Line("fromJS_plain", comp.name, ps[k].name, <<>>, "")]
        \o <<Fixed("return_c"), Fixed("close"), Fixed("blank")>>

\* the toJS converter of one component
Embind_toJS(comp, enum_names) ==
    LET ps == NotSkipped(comp)
    IN  <<Line("toJS_open", comp.name, 0, <<>>, "JS"),
          Line("toJS_decl", comp.name, 0, <<>>, "JS")>>
        \o [k \in 1..Len(ps) |->
              IF TypeSystem_is_handle(ps[k].cpp_type)
              THEN Line("toJS_handle", comp.name, ps[k].name, <<>>, "")
              ELSE IF TypeSystem_is_enum(ps[k].cpp_type, enum_names)
              THEN Line("toJS_enum", comp.name, ps[k].name, <<"i32">>, "")
              ELSE Line("toJS_plain", comp.name, ps[k].name, <<>>, "")]
        \o <<Fixed("return_js"), Fixed("close"), Fixed("blank")>>

\* the first loop of _gen_components: the wrappers of the components from
\* the k-th on
RECURSIVE Embind_wrappers(_, _, _)
Embind_wrappers(comps, enum_names, k) ==
    IF k > Len(comps) THEN <<>>
    ELSE (IF ~ TypeSystem_needs_wrapper(comps[k], enum_names) THEN <<>>
          ELSE Embind_struct(comps[k], enum_names)
               \o Embind_fromJS(comps[k], enum_names)
               \o Embind_toJS(comps[k], enum_names))
         \o Embind_wrappers(comps, enum_names, k + 1)

\* lines[-1] += ';'
EndLast(lines) ==
    [lines EXCEPT ![Len(lines)] = [@ EXCEPT !.term = @ \o ";"]]

\* the value_object statement of one component
Embind_value_object(comp, enum_names) ==
    LET ps   == NotSkipped(comp)
        bind == IF TypeSystem_needs_wrapper(comp, enum_names)
                THEN "JS" ELSE "full"
    IN  EndLast(<<Line("value_object", comp.name, 0, <<>>, bind)>>
                \o [k \in 1..Len(ps) |->
                      Line("field", comp.name, ps[k].name, <<>>, bind)])
        \o <<Fixed("blank")>>

\* the second loop of _gen_components
RECURSIVE Embind_bindings(_, _, _)
Embind_bindings(comps, enum_names, k) ==
    IF k > Len(comps) THEN <<>>
    ELSE Embind_value_object(comps[k], enum_names)
         \o Embind_bindings(comps, enum_names, k + 1)

\* EmbindGenerator._gen_components
EmbindGenerator_gen_components(comps, enumList) ==
    LET enum_names == TypeSystem_enum_names(enumList)
    IN  <<Fixed("rule"), Fixed("title_components"), Fixed("rule"),
          Fixed("blank")>>
        \o Embind_wrappers(comps, enum_names, 1)
        \o <<Fixed("bindings_open")>>
        \o Embind_bindings(comps, enum_names, 1)
        \o <<Fixed("close"), Fixed("blank")>>

\* the headers set of _gen_includes: one include line for every component
\* whose header path holds 'src/esengine/', of what follows its last
\* occurrence
Embind_headers(comps) ==
    LET last(h) == CHOOSE k \in 1..Len(h) :
                      /\ h[k] = "src/esengine/"
                      /\ \A m \in (k + 1)..Len(h) : h[m] # "src/esengine/"
        rel(h)  == <<"../">> \o SubSeq(h, last(h) + 1, Len(h))
    IN  {IncludeLine(rel(comps[k].header_path)) :
            k \in {j \in 1..Len(comps) :
                     \E m \in 1..Len(comps[j].header_path) :
                        comps[j].header_path[m] = "src/esengine/"}}

\* EmbindGenerator._gen_includes, sorted() meeting the set in the given order
EmbindGenerator_gen_includes(order) ==
    Sorted(order) \o <<Fixed("using_namespaces")>>

\* the registration of one enum
Embind_enum(enum) ==
    LET full == IF enum.namespace # ""
                THEN <<enum.namespace, "::">> \o enum.name ELSE enum.name
        open == [EnumLine("enum_open", enum.name, "", -1) EXCEPT !.type = full]
    IN  EndLast(<<open>>
                \o [k \in 1..Len(enum.values) |->
                      [EnumLine("enum_value", enum.name, enum.values[k], -1)
                         EXCEPT !.type = full]])
        \o <<Fixed("blank")>>

\* EmbindGenerator._gen_enums
EmbindGenerator_gen_enums(enumList) ==
    IF enumList = <<>> THEN <<>>
    ELSE <<Fixed("embind_enums_open")>>
         \o Extend([k \in 1..Len(enumList) |-> Embind_enum(enumList[k])])
         \o <<Fixed("close"), Fixed("blank")>>

\* registry functions that take and return the real record whatever the
\* component needs
Embind_registry_real_record(comp, enum_names) ==
    LET L(kind, b) == Line(kind, comp.name, 0, <<>>, b)
    IN  <<L("reg_comment", ""), L("reg_has", ""), L("reg_has_body", "full"),
          Fixed("reg_end"),
          L("reg_get", "full"), L("reg_get_body", "full"),
          Fixed("reg_end_raw"),
          L("reg_add", "full"), L("reg_add_body", "full"), Fixed("reg_end"),
          L("reg_remove", ""), L("reg_remove_body", "full"), Fixed("reg_end"),
          Fixed("blank")>>

\* the registry functions of one component
Embind_registry(comp, enum_names) ==
    LET bind == IF TypeSystem_needs_wrapper(comp, enum_names)
                THEN "JS" ELSE "full"
        L(kind, b) == Line(kind, comp.name, 0, <<>>, b)
    IN  <<L("reg_comment", ""), L("reg_has", ""), L("reg_has_body", "full"),
          Fixed("reg_end"),
          L("reg_get", bind), L("reg_get_body", bind),
          IF bind = "JS" THEN Fixed("reg_end") ELSE Fixed("reg_end_raw"),
          L("reg_add", bind), L("reg_add_body", bind), Fixed("reg_end"),
          L("reg_remove", ""), L("reg_remove_body", "full"), Fixed("reg_end"),
          Fixed("blank")>>

\* EmbindGenerator._gen_registry
EmbindGenerator_gen_registry(comps, enum_names) ==
    <<Fixed("registry_open")>>
    \o Extend([k \in 1..Len(comps) |-> Embind_registry(comps[k], enum_names)])
    \o <<Fixed("reg_semicolon"), Fixed("close")>>

\* EmbindGenerator(components, enums).generate(), sorted() meeting the
\* headers in the given order
EmbindGenerator_generate(comps, enumList, order) ==
    <<Fixed("embind_header")>>
    \o EmbindGenerator_gen_includes(order)
    \o <<Fixed("embind_math_types")>>
    \o EmbindGenerator_gen_enums(enumList)
    \o EmbindGenerator_gen_components(comps, enumList)
    \o EmbindGenerator_gen_registry(comps, TypeSystem_enum_names(enumList))
    \o <<Fixed("blank"), Fixed("endif"), Fixed("blank")>>

(***************************************************************************)
(* tools/eht.py: TypeScriptGenerator                                       *)
(***************************************************************************)
\* enumerate(values) counting from 1
Enumerate_from_one(values) ==
    [k \in 1..Len(values) |-> [i |-> k, val |-> values[k]]]

\* enumerate(values): the pairs (i, val), i counting from 0
Enumerate(values) ==
    [k \in 1..Len(values) |-> [i |-> k - 1, val |-> values[k]]]

\* the declaration of one enum
TypeScript_enum(enum) ==
    LET pairs == Enumerate(enum.values)
    IN  <<EnumLine("ts_enum_open", enum.name, "", -1)>>
        \o [k \in 1..Len(pairs) |->
              EnumLine("ts_enum_member", enum.name, pairs[k].val, pairs[k].i)]
        \o <<Fixed("close"), Fixed("blank")>>

\* TypeScriptGenerator._gen_enums
TypeScriptGenerator_gen_enums(enumList) ==
    IF enumList = <<>> THEN <<>>
    ELSE <<Fixed("ts_enums_title"), Fixed("blank")>>
         \o Extend([k \in 1..Len(enumList) |-> TypeScript_enum(enumList[k])])

\* an interface that declares every property, the skip-listed ones too
TypeScript_interface_all_properties(comp, enum_names) ==
    LET ps == comp.properties
    IN  <<Line("ts_interface_open", comp.name, 0, <<>>, "")>>
        \o [k \in 1..Len(ps) |->
              Line("ts_field", comp.name, ps[k].name,
                   TypeSystem_to_typescript(ps[k].cpp_type, enum_names), "")]
        \o <<Fixed("close"), Fixed("blank")>>

\* the interface of one component
TypeScript_interface(comp, enum_names) ==
    LET ps == NotSkipped(comp)
    IN  <<Line("ts_interface_open", comp.name, 0, <<>>, "")>>
        \o [k \in 1..Len(ps) |->
              Line("ts_field", comp.name, ps[k].name,
                   TypeSystem_to_typescript(ps[k].cpp_type, enum_names), "")]
        \o <<Fixed("close"), Fixed("blank")>>

\* TypeScriptGenerator._gen_components
TypeScriptGenerator_gen_components(comps, enum_names) ==
    <<Fixed("ts_components_title"), Fixed("blank")>>
    \o Extend([k \in 1..Len(comps) |->
                 TypeScript_interface(comps[k], enum_names)])

\* TypeScriptGenerator._gen_registry
TypeScriptGenerator_gen_registry(comps) ==
    <<Fixed("ts_registry_open")>>
    \o Extend([k \in 1..Len(comps) |->
                 <<Line("ts_has", comps[k].name, 0, <<>>, ""),
                   Line("ts_get", comps[k].name, 0, <<>>, ""),
                   Line("ts_add", comps[k].name, 0, <<>>, ""),
                   Line("ts_remove", comps[k].name, 0, <<>>, "")>>])
    \o <<Fixed("close"), Fixed("blank")>>

\* TypeScriptGenerator._gen_module
TypeScriptGenerator_gen_module(comps) ==
    <<Fixed("ts_module_open")>>
    \o [k \in 1..Len(comps) |->
          Line("ts_module_entry", comps[k].name, 0, <<>>, "")]
    \o <<Fixed("close"), Fixed("blank")>>

\* TypeScriptGenerator(components, enums).generate()
TypeScriptGenerator_generate(comps, enumList) ==
    LET enum_names == TypeSystem_enum_names(enumList)
    IN  <<Fixed("ts_header")>>
        \o TypeScriptGenerator_gen_enums(enumList)
        \o TypeScriptGenerator_gen_components(comps, enum_names)
        \o TypeScriptGenerator_gen_registry(comps)
        \o TypeScriptGenerator_gen_module(comps)

(***************************************************************************)
(* tools/generate_bindings.py: EmscriptenGenerator, TypeScriptGenerator    *)
(* and QuickJSGenerator.                                                   *)
(*                                                                         *)
(* No component of the model has methods (no token is an ES_METHOD match), *)
(* so the loops over component.methods add no line and are left out.       *)
(***************************************************************************)
\* the include lines of generate(): for every component in turn, its header
\* path without 'src/esengine/' after the prefix, unless that line has been
\* added before (included_headers)
RECURSIVE GB_includes(_, _, _, _)
GB_includes(comps, prefix, k, included_headers) ==
    IF k > Len(comps) THEN <<>>
    ELSE LET rel_path == SelectSeq(comps[k].header_path,
                                   LAMBDA a : a # "src/esengine/")
             include_line == IncludeLine(<<prefix>> \o rel_path)
         IN  IF include_line \in included_headers
             THEN GB_includes(comps, prefix, k + 1, included_headers)
             ELSE <<include_line>>
                  \o GB_includes(comps, prefix, k + 1,
                                 included_headers \cup {include_line})

\* the value_object statement of one component
Emscripten_value_object(comp) ==
    <<Line("em_comment", comp.name, 0, <<>>, ""),
      Line("em_value_object", comp.name, 0, <<>>, "full")>>
    \o [k \in 1..Len(comp.properties) |->
          Line("em_field", comp.name, comp.properties[k].name, <<>>, "full")]
    \o <<Fixed("reg_semicolon"), Fixed("blank")>>

\* EmscriptenGenerator._generate_components
EmscriptenGenerator_generate_components(comps) ==
    <<Fixed("em_components_open")>>
    \o Extend([k \in 1..Len(comps) |-> Emscripten_value_object(comps[k])])
    \o <<Fixed("close"), Fixed("blank")>>

\* the registry functions of one component
Emscripten_registry(comp) ==
    LET L(kind) == Line(kind, comp.name, 0, <<>>, "full")
    IN  <<L("em_reg_comment"),
          L("em_reg_has"), L("em_reg_has_body"), Fixed("reg_end"),
          L("em_reg_get"), L("em_reg_get_body"), Fixed("reg_end"),
          L("em_reg_add"), L("em_reg_add_body"), Fixed("reg_end"),
          L("em_reg_remove"), L("em_reg_remove_body"), Fixed("reg_end"),
          Fixed("blank")>>

\* EmscriptenGenerator._generate_registry
EmscriptenGenerator_generate_registry(comps) ==
    <<Fixed("em_registry_open")>>
    \o Extend([k \in 1..Len(comps) |-> Emscripten_registry(comps[k])])
    \o <<Fixed("reg_semicolon"), Fixed("close")>>

\* EmscriptenGenerator(components).generate()
EmscriptenGenerator_generate(comps) ==
    <<Fixed("em_header")>>
    \o GB_includes(comps, "../", 1, {})
    \o <<Fixed("em_math_types")>>
    \o EmscriptenGenerator_generate_components(comps)
    \o EmscriptenGenerator_generate_registry(comps)
    \o <<Fixed("em_footer")>>

\* TypeScriptGenerator._cpp_to_ts_type of generate_bindings.py; the number
\* keys of its type_map are the fifteen names of PRIMITIVE_TYPES but bool,
\* and size_t and usize
GB_cpp_to_ts_type(cpp_type) ==
    LET t == Strip(SelectSeq(Strip(cpp_type),
                             LAMBDA a : a # "const" /\ a # "&"))
    IN  CASE t = <<"bool">>        -> <<"boolean">>
          [] t = <<"Entity">>      -> <<"Entity">>
          [] t = <<"std::string">> -> <<"string">>
          [] t = <<"void">>        -> <<"void">>
          [] t \in (PRIMITIVE_TYPES \ { <<"bool">> })
                \cup { <<"size_t">>, <<"usize">> } -> <<"number">>
          [] t = <<"glm::vec2">>   -> <<"Vec2">>
          [] t = <<"glm::vec3">>   -> <<"Vec3">>
          [] t = <<"glm::vec4">>   -> <<"Vec4">>
          [] t = <<"glm::quat">>   -> <<"Quat">>
          [] OTHER                 -> <<"any">>

\* the interface of one component
GB_TypeScript_interface(comp) ==
    <<Line("dts_interface_open", comp.name, 0, <<>>, "")>>
    \o [k \in 1..Len(comp.properties) |->
          Line("dts_field", comp.name, comp.properties[k].name,
               GB_cpp_to_ts_type(comp.properties[k].type), "")]
    \o <<Fixed("dts_close"), Fixed("blank")>>

\* TypeScriptGenerator(components).generate() of generate_bindings.py
GB_TypeScriptGenerator_generate(comps) ==
    <<Fixed("dts_header")>>
    \o Extend([k \in 1..Len(comps) |-> GB_TypeScript_interface(comps[k])])
    \o <<Fixed("dts_registry_open")>>
    \o Extend([k \in 1..Len(comps) |->
                 <<Line("dts_comment", comps[k].name, 0, <<>>, ""),
                   Line("dts_has", comps[k].name, 0, <<>>, ""),
                   Line("dts_get", comps[k].name, 0, <<>>, ""),
                   Line("dts_add", comps[k].name, 0, <<>>, ""),
                   Line("dts_remove", comps[k].name, 0, <<>>, ""),
                   Fixed("blank")>>])
    \o <<Fixed("dts_footer")>>

\* sub in type, for the substrings QuickJSGenerator looks for: an atom holds
\* it when it is that text or ends with it
Contains(type, sub) ==
    \E k \in 1..Len(type) :
        \/ type[k] = sub
        \/ (sub = "vec3" /\ type[k] = "glm::vec3")
        \/ (sub = "quat" /\ type[k] = "glm::quat")

\* the converter _generate_component_bindings picks for a property type
QuickJS_converter(type) ==
    IF Contains(type, "vec3") THEN "vec3"
    ELSE IF Contains(type, "quat") THEN "quat"
    ELSE IF Contains(type, "f32") \/ Contains(type, "float") THEN "f32"
    ELSE "todo"

\* a getter trampoline with no line for a property without converter
QuickJS_getter_dropping(comp) ==
    LET L(kind) == Line(kind, comp.name, 0, <<>>, "full")
        ps == SelectSeq(comp.properties,
                        LAMBDA p : QuickJS_converter(p.type) # "todo")
    IN  <<L("qjs_get_open"), Fixed("qjs_entity"), L("qjs_get_has"),
          L("qjs_get_throw"), Fixed("qjs_end_if"), L("qjs_get_comp"),
          Fixed("qjs_new_object")>>
        \o [k \in 1..Len(ps) |->
              Line("qjs_get_prop", comp.name, ps[k].name, <<>>,
                   QuickJS_converter(ps[k].type))]
        \o <<Fixed("qjs_return_obj"), Fixed("close"), Fixed("blank")>>

\* the getter trampoline of one component
QuickJS_getter(comp) ==
    LET L(kind) == Line(kind, comp.name, 0, <<>>, "full")
        ps == comp.properties
    IN  <<L("qjs_get_open"), Fixed("qjs_entity"), L("qjs_get_has"),
          L("qjs_get_throw"), Fixed("qjs_end_if"), L("qjs_get_comp"),
          Fixed("qjs_new_object")>>
        \o [k \in 1..Len(ps) |->
              IF QuickJS_converter(ps[k].type) = "todo"
              THEN Line("qjs_get_todo", "", 0, ps[k].type, "")
              ELSE Line("qjs_get_prop", comp.name, ps[k].name, <<>>,
                        QuickJS_converter(ps[k].type))]
        \o <<Fixed("qjs_return_obj"), Fixed("close"), Fixed("blank")>>

\* the lines of the setter trampoline about one property
QuickJS_set_property(comp, p) ==
    LET L(kind) == Line(kind, comp.name, p.name, <<>>,
                        QuickJS_converter(p.type))
    IN  <<L("qjs_set_val")>>
        \o (CASE QuickJS_converter(p.type) \in {"vec3", "quat"} ->
                    <<L("qjs_set_convert")>>
               [] QuickJS_converter(p.type) = "f32" ->
                    <<L("qjs_set_double"), L("qjs_set_to_float"),
                      L("qjs_set_cast")>>
               [] OTHER -> <<>>)
        \o <<L("qjs_set_free")>>

\* the setter trampoline of one component
QuickJS_setter(comp) ==
    LET L(kind) == Line(kind, comp.name, 0, <<>>, "full")
    IN  <<L("qjs_add_open"), Fixed("qjs_entity"), L("qjs_add_decl")>>
        \o Extend([k \in 1..Len(comp.properties) |->
                     QuickJS_set_property(comp, comp.properties[k])])
        \o <<L("qjs_add_emplace"), Fixed("qjs_return_undefined"),
              Fixed("close"), Fixed("blank")>>

\* QuickJSGenerator._generate_component_bindings
QuickJSGenerator_generate_component_bindings(comp) ==
    <<Fixed("rule"), Line("qjs_title", comp.name, 0, <<>>, ""), Fixed("rule"),
      Fixed("blank")>>
    \o QuickJS_getter(comp)
    \o QuickJS_setter(comp)

\* QuickJSGenerator._generate_main_bind
QuickJSGenerator_generate_main_bind(comps) ==
    <<Fixed("qjs_bind_open")>>
    \o Extend([k \in 1..Len(comps) |->
                 <<Line("qjs_bind_comment", comps[k].name, 0, <<>>, ""),
                   Line("qjs_bind_get", comps[k].name, 0, <<>>, ""),
                   Line("qjs_bind_get_function", comps[k].name, 0, <<>>, ""),
                   Line("qjs_bind_add", comps[k].name, 0, <<>>, ""),
                   Line("qjs_bind_add_function", comps[k].name, 0, <<>>, ""),
                   Fixed("blank")>>])
    \o <<Fixed("qjs_bind_close")>>

\* the trampolines (functions js_Registry_<slot><Name>) a line of the
\* QuickJS document defines: the opening lines of the getter and of the
\* setter; the helpers block defines the four converters and no trampoline
QuickJS_defines(line) ==
    CASE line.kind = "qjs_get_open" -> { <<"get", line.comp>> }
      [] line.kind = "qjs_add_open" -> { <<"add", line.comp>> }
      [] OTHER -> {}

\* the trampolines a line of the QuickJS document hands to JS_NewCFunction:
\* the opening block of bindECS wires js_Registry_create, js_Registry_destroy
\* and js_Registry_valid, and the loop wires the getter and the setter of
\* every component
QuickJS_wires(line) ==
    CASE line.kind = "qjs_bind_open" ->
            { <<"create", "">>, <<"destroy", "">>, <<"valid", "">> }
      [] line.kind = "qjs_bind_get_function" -> { <<"get", line.comp>> }
      [] line.kind = "qjs_bind_add_function" -> { <<"add", line.comp>> }
      [] OTHER -> {}

\* QuickJSGenerator(components).generate()
QuickJSGenerator_generate(comps) ==
    <<Fixed("qjs_header")>>
    \o GB_includes(comps, "../../", 1, {})
    \o <<Fixed("qjs_namespace_open"), Fixed("qjs_helpers")>>
    \o Extend([k \in 1..Len(comps) |->
                 QuickJSGenerator_generate_component_bindings(comps[k])])
    \o QuickJSGenerator_generate_main_bind(comps)
    \o <<Fixed("qjs_footer")>>

(***************************************************************************)
(* The emitter specification: a schema handed to the emitters.  A schema   *)
(* is either one component with properties of any types of the universe,   *)
(* or a list of components that differ in name, namespace, header and      *)
(* properties.                                                             *)
(*                                                                         *)
(* A header path is, like a type, a sequence of atoms cut so that the      *)
(* substring the code looks for ('src/esengine/') is an atom of its own.   *)
(***************************************************************************)
\* most properties of the component
MaxProps == 2

\* the declared types properties are drawn from
TypeUniverse ==
    { <<"bool">>, <<"f32">>, <<"u32">>,
      <<"glm::vec3">>,
      <<"const", " ", "glm::vec3", "&">>,
      <<"glm::mat4">>,
      <<"Mode">>,
      <<"ns", "::", "Mode">>,
      <<"const", " ", "Mode", "&">>,
      <<"Handle", "Type">>,
      <<"Texture", "Handle">>,
      <<"resource::", "Texture">>,
      <<"std::vector", "<", "Mode", ">">>,
      <<"std::vector", "<", "Texture", "Handle", ">">>,
      <<"std::function", "<", "void", "(", ")", ">">>,
      <<"std::string">>,
      <<"Entity">>,
      <<"Color">> }

\* enum class Mode in namespace ns, and enum class HandleType in none
EnumMode ==
    [name |-> <<"Mode">>, namespace |-> "ns", values |-> <<"A", "B">>,
     underlying_type |-> "int"]

EnumHandleType ==
    [name |-> <<"Handle", "Type">>, namespace |-> "", values |-> <<"X">>,
     underlying_type |-> "u8"]

EnumLists ==
    { <<>>, <<EnumMode>>, <<EnumHandleType>>, <<EnumMode, EnumHandleType>> }

PropertyLists ==
    UNION { { [k \in 1..n |->
                 [name |-> k, cpp_type |-> ts[k], default_value |-> "None"]] :
              ts \in [1..n -> TypeUniverse] } : n \in 0..MaxProps }

\* the schemas of one component
TypeSchemas ==
    { [components |-> << [name |-> "Sprite", namespace |-> "ns",
                          header_path |-> <<>>, properties |-> ps] >>,
       enums |-> es] : ps \in PropertyLists, es \in EnumLists }

\* most components of a schema of several
MaxComps == 2

\* enum class Facing of four values, and an enum without values
EnumFacing ==
    [name |-> <<"Facing">>, namespace |-> "",
     values |-> <<"North", "East", "South", "West">>,
     underlying_type |-> "int"]

EnumEmpty ==
    [name |-> <<"Empty">>, namespace |-> "ns", values |-> <<>>,
     underlying_type |-> "int"]

HeaderPaths ==
    { <<"src/esengine/", "ecs/A.hpp">>,
      <<"src/esengine/", "ecs/B.hpp">>,
      <<"vendor/", "src/esengine/", "ecs/A.hpp">>,
      <<"include/", "C.hpp">> }

\* the components of a schema of several: Sprite has four properties, one
\* of them of type Facing and one skip-listed; Camera has none
ComponentKinds ==
    { [name |-> "Sprite", namespace |-> "ns", header_path |-> h,
       properties |->
          [k \in 1..4 |->
             [name |-> k,
              cpp_type |-> << <<"glm::vec3">>, <<"Facing">>, <<"glm::mat4">>,
                              <<"f32">> >>[k],
              default_value |-> "None"]]] : h \in HeaderPaths }
    \cup
    { [name |-> "Camera", namespace |-> "", header_path |-> h,
       properties |-> <<>>] : h \in HeaderPaths }

\* the schemas of several components; two of them may have the same name
ShapeSchemas ==
    { [components |-> cs, enums |-> es] :
        cs \in UNION {[1..n -> ComponentKinds] : n \in 1..MaxComps},
        es \in { <<EnumFacing>>, <<EnumEmpty, EnumFacing>> } }

\* the declared types the properties of generate_bindings.py are drawn from
GB_TypeUniverse ==
    { <<"f32">>, <<"float">>, <<"int">>, <<"bool">>,
      <<"glm::vec3">>, <<"glm::quat">>, <<"glm::vec2">>,
      <<"const", " ", "glm::vec3", "&">>,
      <<"std::vector", "<", "glm::vec3", ">">>,
      <<"std::string">>, <<"Entity">>, <<"Color">> }

GB_PropertyLists ==
    UNION { { [k \in 1..n |->
                 [name |-> k, type |-> ts[k], default_value |-> "None"]] :
              ts \in [1..n -> GB_TypeUniverse] } : n \in 0..MaxProps }

\* a Component of generate_bindings.py
GB_Component(name, namespace, header_path, properties) ==
    [name |-> name, namespace |-> namespace, properties |-> properties,
     methods |-> <<>>, header_path |-> header_path, is_struct |-> TRUE]

\* the components of a schema of several: Sprite has three properties, one
\* of them without converter; Camera has none
GB_ComponentKinds ==
    { GB_Component("Sprite", "ns", h,
          [k \in 1..3 |->
             [name |-> k,
              type |-> << <<"glm::vec3">>, <<"int">>, <<"f32">> >>[k],
              default_value |-> "None"]]) : h \in HeaderPaths }
    \cup { GB_Component("Camera", "", h, <<>>) : h \in HeaderPaths }

\* the schemas generate_bindings.py hands to its generators
GB_Schemas ==
    { [components |->
          <<GB_Component("Sprite", "ns", <<"src/esengine/", "ecs/A.hpp">>, ps)>>,
       enums |-> <<>>] : ps \in GB_PropertyLists }
    \cup
    { [components |-> cs, enums |-> <<>>] :
        cs \in UNION {[1..n -> GB_ComponentKinds] : n \in 1..MaxComps} }

EmitInit ==
    /\ pc = "schema"
    /\ tool \in {"eht", "gb"}
    /\ \E schema \in IF tool = "eht" THEN TypeSchemas \cup ShapeSchemas
                      ELSE GB_Schemas :
        /\ components = schema.components
        /\ enums = schema.enums
        /\ given = schema
    /\ doc = <<>>
    /\ types = <<>>
    /\ pack = NoPack
    /\ content = <<>> /\ warnings = <<>>
    /\ roots = <<>> /\ rootIdx = 0 /\ dirs = {} /\ step = 0 /\ log = <<>>
    /\ exitCode = -1

\* what a generate() call leaves alone
emitFrame == <<tool, content, components, enums, warnings, roots, rootIdx,
               dirs, step, types, given, exitCode, pack>>

\* the log of the emitter specification: the generators in the order of
\* their first run
Ran(generator) ==
    log' = IF <<"generate", generator>> \in {log[k] : k \in 1..Len(log)}
           THEN log ELSE Append(log, <<"generate", generator>>)

\* a generate() that removes from each component the properties it passes
\* over
EmbindGenerate_dropping_skipped ==
    /\ pc \in {"schema", "embind", "ts"}
    /\ tool = "eht"
    /\ \E order \in IterationOrders(Embind_headers(components)) :
        doc' = EmbindGenerator_generate(components, enums, order)
    /\ pc' = "embind"
    /\ Ran("EmbindGenerator")
    /\ components' = [k \in 1..Len(components) |->
                        [components[k] EXCEPT
                            !.properties = NotSkipped(components[k])]]
    /\ UNCHANGED <<tool, content, enums, warnings, roots, rootIdx, dirs,
                   step, types, given, exitCode, pack>>

\* EmbindGenerator(components, enums).generate()
EmbindGenerate ==
    /\ pc \in {"schema", "embind", "ts"}
    /\ tool = "eht"
    /\ \E order \in IterationOrders(Embind_headers(components)) :
        doc' = EmbindGenerator_generate(components, enums, order)
    /\ pc' = "embind"
    /\ Ran("EmbindGenerator")
    /\ UNCHANGED emitFrame

\* a generate() that takes the enums off the list as it declares them
TypeScriptGenerate_consuming_enums ==
    /\ pc \in {"schema", "embind", "ts"}
    /\ tool = "eht"
    /\ doc' = TypeScriptGenerator_generate(components, enums)
    /\ pc' = "ts"
    /\ Ran("TypeScriptGenerator")
    /\ enums' = <<>>
    /\ UNCHANGED <<tool, content, components, warnings, roots, rootIdx, dirs,
                   step, types, given, exitCode, pack>>

\* TypeScriptGenerator(components, enums).generate()
TypeScriptGenerate ==
    /\ pc \in {"schema", "embind", "ts"}
    /\ tool = "eht"
    /\ doc' = TypeScriptGenerator_generate(components, enums)
    /\ pc' = "ts"
    /\ Ran("TypeScriptGenerator")
    /\ UNCHANGED emitFrame

\* EmscriptenGenerator(components).generate()
EmscriptenGenerate ==
    /\ pc \in {"schema", "emscripten", "dts", "quickjs"}
    /\ tool = "gb"
    /\ doc' = EmscriptenGenerator_generate(components)
    /\ pc' = "emscripten"
    /\ Ran("EmscriptenGenerator")
    /\ UNCHANGED emitFrame

\* TypeScriptGenerator(components).generate() of generate_bindings.py
GB_TypeScriptGenerate ==
    /\ pc \in {"schema", "emscripten", "dts", "quickjs"}
    /\ tool = "gb"
    /\ doc' = GB_TypeScriptGenerator_generate(components)
    /\ pc' = "dts"
    /\ Ran("TypeScriptGenerator")
    /\ UNCHANGED emitFrame

\* QuickJSGenerator(components).generate()
QuickJSGenerate ==
    /\ pc \in {"schema", "emscripten", "dts", "quickjs"}
    /\ tool = "gb"
    /\ doc' = QuickJSGenerator_generate(components)
    /\ pc' = "quickjs"
    /\ Ran("QuickJSGenerator")
    /\ UNCHANGED emitFrame

EmitNext ==
    \/ EmbindGenerate
    \/ TypeScriptGenerate
    \/ EmscriptenGenerate
    \/ GB_TypeScriptGenerate
    \/ QuickJSGenerate

EmitSpec == EmitInit /\ [][EmitNext]_vars

(***************************************************************************)
(* tools/pack_bitmap_font.py: pack_font and main                           *)
(*                                                                         *)
(* A glyph is what the first pass keeps of a character that loaded: the    *)
(* width and height of its bitmap, and the place of its character in       *)
(* chars.  A character that fails to load leaves nothing behind, so chars  *)
(* is modelled as the glyphs that loaded.  A metrics entry keeps x and y   *)
(* where the code stores u0 = x / atlas_width, v0 = y / atlas_height,      *)
(* u1 = (x + w) / atlas_width and v1 = (y + h) / atlas_height.             *)
(* pack is the frame of the innermost call of pack_font; a nested call     *)
(* returns its value through every frame above it unchanged.               *)
(***************************************************************************)
\* most characters of one run
MaxGlyphs == 3

\* most nested calls of pack_font the model follows
MaxCalls == 4

\* the bitmap sizes a font renders its characters to
GlyphSizes ==
    { [width |-> 0,   height |-> 0],
      [width |-> 20,  height |-> 20],
      [width |-> 20,  height |-> 30],
      [width |-> 100, height |-> 100],
      [width |-> 130, height |-> 10],
      [width |-> 300, height |-> 10],
      [width |-> 10,  height |-> 300] }

\* the glyphs of the characters of chars, in the order of chars
GlyphLists ==
    UNION { { [k \in 1..n |-> [char |-> k, width |-> sizes[k].width,
                               height |-> sizes[k].height]] :
              sizes \in [1..n -> GlyphSizes] } : n \in 0..MaxGlyphs }

\* --padding and --atlas-size
Paddings == {0, 2}

AtlasSizes == {64, 256, 1024}

min(a, b) == IF a < b THEN a ELSE b

max(a, b) == IF a > b THEN a ELSE b

\* glyph_data.sort(key=lambda g: -g['height']): the taller glyph first, and
\* glyphs of one height in the order they had (list.sort is stable)
RECURSIVE SortByHeight(_)
SortByHeight(glyph_data) ==
    IF glyph_data = <<>> THEN <<>>
    ELSE LET g    == Head(glyph_data)
             rest == SortByHeight(Tail(glyph_data))
             before == SelectSeq(rest, LAMBDA r : r.height > g.height)
             after  == SelectSeq(rest, LAMBDA r : r.height <= g.height)
         IN  before \o <<g>> \o after

\* sum((g['width'] + padding) * (g['height'] + padding) for g in glyph_data)
RECURSIVE total_area(_, _)
total_area(glyph_data, padding) ==
    IF glyph_data = <<>> THEN 0
    ELSE (Head(glyph_data).width + padding)
            * (Head(glyph_data).height + padding)
         + total_area(Tail(glyph_data), padding)

\* int(math.sqrt(area) * 1.2): the largest n with n <= 1.2 * sqrt(area),
\* that is with 25 * n * n <= 36 * area, found bit by bit from the highest
\* bit down (areas of the model stay far below 2048 * 2048)
RECURSIVE min_size(_, _, _)
min_size(area, n, bit) ==
    LET m == IF 25 * (n + bit) * (n + bit) <= 36 * area THEN n + bit ELSE n
    IN  IF bit = 1 THEN m ELSE min_size(area, m, bit \div 2)

\* 2 ** math.ceil(math.log2(n)) for n >= 1: the least power of two from p
\* on that is not below n
RECURSIVE PowerOfTwo(_, _)
PowerOfTwo(n, p) == IF p >= n THEN p ELSE PowerOfTwo(n, 2 * p)

\* atlas_width = min(atlas_size, max(256, 2 ** ceil(log2(min_size))))
AtlasWidth(glyph_data, padding, atlas_size) ==
    min(atlas_size,
        max(256,
            PowerOfTwo(min_size(total_area(glyph_data, padding), 0, 1024),
                       1)))

\* y += padding, the row's height forgotten
NextRow_padding_only(y, row_height, padding) == y + padding

\* y += row_height + padding
NextRow(y, row_height, padding) == y + row_height + padding

\* the glyph the loop is at
Glyph == pack.glyph_data[pack.glyph]

\* if x + w + padding > atlas_width: whether the glyph goes to the next row
Wraps == pack.x + Glyph.width + pack.padding > pack.atlas_width

\* x and y after the test for the next row
PlaceX == IF Wraps THEN pack.padding ELSE pack.x

PlaceY ==
    IF Wraps THEN NextRow(pack.y, pack.row_height, pack.padding) ELSE pack.y

\* if y + h + padding > atlas_height
AtlasFull == PlaceY + Glyph.height + pack.padding > pack.atlas_height

\* what a step of pack_font leaves alone
packFrame == <<tool, content, components, enums, warnings, roots, rootIdx,
               dirs, step, log, doc, types, given>>

PackInit ==
    /\ pc = "call"
    /\ tool = "pack_font"
    /\ \E chars \in GlyphLists, padding \in Paddings :
        \E atlas_size \in AtlasSizes :
            pack = [NoPack EXCEPT !.glyph_data = chars, !.padding = padding,
                                  !.atlas_size = atlas_size]
    /\ content = <<>> /\ components = <<>> /\ enums = <<>>
    /\ warnings = <<>>
    /\ roots = <<>> /\ rootIdx = 0 /\ dirs = {} /\ step = 0 /\ log = <<>>
    /\ doc = <<>>
    /\ types = <<>>
    /\ given = [components |-> <<>>, enums |-> <<>>]
    /\ exitCode = -1

\* if not glyph_data: return False, and main exits with 1
NoGlyphs ==
    /\ pc = "call"
    /\ pack.glyph_data = <<>>
    /\ pack' = [pack EXCEPT !.calls = @ + 1, !.result = "False"]
    /\ pc' = "returned"
    /\ exitCode' = 1
    /\ UNCHANGED packFrame

\* math.log2(min_size) with min_size = 0 raises ValueError
LogOfZero ==
    /\ pc = "call"
    /\ pack.glyph_data # <<>>
    /\ min_size(total_area(pack.glyph_data, pack.padding), 0, 1024) = 0
    /\ pack' = [pack EXCEPT !.calls = @ + 1]
    /\ pc' = "raised"
    /\ exitCode' = 1
    /\ UNCHANGED packFrame

\* the call up to the loop over the glyphs: the glyphs sorted, the atlas
\* sized, x, y = padding, padding and row_height = 0
Measure ==
    /\ pc = "call"
    /\ pack.glyph_data # <<>>
    /\ min_size(total_area(pack.glyph_data, pack.padding), 0, 1024) > 0
    /\ LET width == AtlasWidth(pack.glyph_data, pack.padding, pack.atlas_size)
       IN  pack' = [pack EXCEPT
                      !.glyph_data = SortByHeight(@),
                      !.atlas_width = width, !.atlas_height = width,
                      !.x = pack.padding, !.y = pack.padding,
                      !.row_height = 0, !.glyph = 1, !.glyphs = <<>>,
                      !.calls = @ + 1]
    /\ pc' = "pack"
    /\ UNCHANGED <<exitCode, packFrame>>

\* one turn of the loop that places the glyph: the row test, the atlas
\* found not full, the metrics entry and the move of x
Place ==
    /\ pc = "pack"
    /\ pack.glyph <= Len(pack.glyph_data)
    /\ ~ AtlasFull
    /\ pack' = [pack EXCEPT
                  !.glyphs = Append(@, [char |-> Glyph.char,
                                        x |-> PlaceX, y |-> PlaceY,
                                        width |-> Glyph.width,
                                        height |-> Glyph.height]),
                  !.x = PlaceX + Glyph.width + pack.padding,
                  !.y = PlaceY,
                  !.row_height =
                      max(IF Wraps THEN 0 ELSE pack.row_height, Glyph.height),
                  !.glyph = @ + 1]
    /\ UNCHANGED <<pc, exitCode, packFrame>>

\* the atlas is full and narrower than the maximum:
\* return pack_font(font_path, font_size, chars, output_prefix, padding,
\*                  min(atlas_size, atlas_width * 2))
Retry ==
    /\ pc = "pack"
    /\ pack.glyph <= Len(pack.glyph_data)
    /\ AtlasFull
    /\ pack.atlas_width < pack.atlas_size
    /\ pack.calls < MaxCalls
    /\ pack' = [pack EXCEPT
                  !.atlas_size = min(pack.atlas_size, pack.atlas_width * 2)]
    /\ pc' = "call"
    /\ UNCHANGED <<exitCode, packFrame>>

\* the atlas is full at the maximum: the error is printed and the loop left
Break ==
    /\ pc = "pack"
    /\ pack.glyph <= Len(pack.glyph_data)
    /\ AtlasFull
    /\ pack.atlas_width >= pack.atlas_size
    /\ pc' = "save"
    /\ UNCHANGED <<pack, exitCode, packFrame>>

\* after the loop: the atlas and the metrics are saved, pack_font returns
\* True and main exits with 0
Save ==
    /\ \/ pc = "save"
       \/ pc = "pack" /\ pack.glyph > Len(pack.glyph_data)
    /\ pack' = [pack EXCEPT !.saved = TRUE, !.result = "True"]
    /\ pc' = "returned"
    /\ exitCode' = 0
    /\ UNCHANGED packFrame

PackNext ==
    \/ NoGlyphs
    \/ LogOfZero
    \/ Measure
    \/ Place
    \/ Retry
    \/ Break
    \/ Save

PackSpec == PackInit /\ [][PackNext]_vars

(***************************************************************************)
(* Brace matching stated without a scan, for the claims about the scans.   *)
(***************************************************************************)
Opens(text, a, b) == Cardinality({k \in a..b : IsOpen(text[k])})

Closes(text, a, b) == Cardinality({k \in a..b : text[k] = "}"})

\* b holds the closing brace that matches the opening brace at a
Balanced(text, a, b) ==
    /\ a < b /\ b <= Len(text)
    /\ IsOpen(text[a]) /\ text[b] = "}"
    /\ Opens(text, a, b) = Closes(text, a, b)
    /\ \A m \in a..(b - 1) : Opens(text, a, m) > Closes(text, a, m)

\* the position of the brace matching the one at a, 0 when there is none
MatchingClose(text, a) ==
    IF \E b \in (a + 1)..Len(text) : Balanced(text, a, b)
    THEN CHOOSE b \in (a + 1)..Len(text) : Balanced(text, a, b)
    ELSE 0

\* the marker at i is directly followed by its opening brace, and that brace
\* is closed
WellFormed(text, i) ==
    /\ i + 1 <= Len(text) /\ IsOpen(text[i + 1])
    /\ MatchingClose(text, i + 1) # 0

\* the marker at i is not followed by a complete delimiter span
Incomplete(text, i) ==
    \/ FindOpen(text, i + 1) = 0
    \/ MatchingClose(text, FindOpen(text, i + 1)) = 0

PropertyNames(c) == [k \in 1..Len(c.properties) |-> c.properties[k].name]

\* the components recorded for the marker at position i
RecordsOf(i) == {k \in 1..Len(components) : components[k].name = i}

\* C1: CppParser._parse_components records, for every ES_COMPONENT marker
\* with a closed body, exactly one component whose body span starts at the
\* component's opening brace and ends at the matching outermost closing
\* brace, and whose properties are all the properties inside that span,
\* nested scopes included, in text order.
C1_BalancedBodySpan ==
    (pc = "parsed" /\ tool = "eht") =>
        \A i \in 1..Len(content) :
            (content[i] = "C" /\ WellFormed(content, i)) =>
                /\ Cardinality(RecordsOf(i)) = 1
                /\ \A k \in RecordsOf(i) :
                    /\ components[k].body_start = i + 1
                    /\ components[k].body_end = MatchingClose(content, i + 1)
                    /\ PropertyNames(components[k]) =
                         Matches(content, "P", i + 1,
                                 MatchingClose(content, i + 1))

\* a component whose body holds a nested brace pair with a property in it
C1_Witness ==
    /\ pc = "parsed" /\ tool = "eht"
    /\ \E k \in 1..Len(components) :
        /\ WellFormed(content, components[k].name)
        /\ \E j \in (components[k].body_start + 1)..components[k].body_end :
            /\ IsOpen(content[j])
            /\ MatchingClose(content, j) # 0
            /\ \E q \in 1..Len(components[k].properties) :
                /\ j < components[k].properties[q].name
                /\ components[k].properties[q].name < MatchingClose(content, j)

\* C2: ComponentParser.parse_file ends a component's body at the component's
\* own closing brace: the properties recorded for a component are exactly
\* those its braces enclose, so a property belongs to the one component that
\* encloses it and a component with properties has a non-empty list.
C2_OwnClosingBrace ==
    (pc = "parsed" /\ tool = "gb") =>
        \A i \in 1..Len(content) :
            (content[i] = "C" /\ WellFormed(content, i)) =>
                \A k \in RecordsOf(i) :
                    /\ components[k].body_end = MatchingClose(content, i + 1)
                    /\ PropertyNames(components[k]) =
                         Matches(content, "P", i + 1,
                                 MatchingClose(content, i + 1))

\* C3: a marker of CppParser that is not followed by a complete delimiter
\* span adds no record and logs a warning.
C3_IncompleteSkippedWithWarning ==
    (pc = "parsed" /\ tool = "eht") =>
        \A i \in 1..Len(content) :
            /\ (content[i] = "C" /\ Incomplete(content, i)) =>
                    (RecordsOf(i) = {} /\ warnings # <<>>)
            /\ (content[i] = "E" /\ Incomplete(content, i)) =>
                    /\ ~ \E k \in 1..Len(enums) : enums[k].name = i
                    /\ warnings # <<>>

\* the enumerators a declaration of EnumTexts declares, in order: the first
\* lexeme of the body and every lexeme after a comma
DeclaredEnumerators(text) ==
    LET at == {j \in 3..(Len(text) - 2) : j = 3 \/ text[j - 1] = ","}
        ordered == Ascending(at)
    IN  [k \in 1..Len(ordered) |-> text[ordered[k]]]

\* C12: for an ES_ENUM whose enumerators are distinct identifiers, with or
\* without initializers, CppParser._parse_enums records as values exactly
\* the declared enumerator names in declaration order, so the values are
\* pairwise distinct.
C12_ValuesAreDeclaredNames ==
    (pc = "parsed" /\ tool = "eht" /\ content \in EnumTexts) =>
        /\ Len(enums) = 1
        /\ enums[1].values = DeclaredEnumerators(content)
        /\ \A i, j \in 1..Len(enums[1].values) :
                i # j => enums[1].values[i] # enums[1].values[j]
(***************************************************************************)
Range(seq) == {seq[k] : k \in 1..Len(seq)}

NoState == [components |-> <<>>, enums |-> <<>>, warnings |-> <<>>]

\* what the k-th file of root n yields when a fresh parser scans it alone
Alone(n, k) ==
    IF tool = "eht"
    THEN CppParser_parse_file(NoState, roots[n][k], <<n, k>>)
    ELSE ComponentParser_try_parse_file(NoState, roots[n][k], <<n, k>>)

\* the contributions of the files k.. of root n and of the roots after it, up
\* to root last, joined in scan order
RECURSIVE Joined(_, _, _)
Joined(n, k, last) ==
    IF n > last THEN NoState
    ELSE IF k > Len(roots[n]) THEN Joined(n + 1, 1, last)
    ELSE LET a == Alone(n, k)
             r == Joined(n, k + 1, last)
         IN  [components |-> a.components \o r.components,
              enums |-> a.enums \o r.enums,
              warnings |-> a.warnings \o r.warnings]

\* C4: a file that fails to parse contributes nothing but one warning, and
\* every other file scanned so far, before or after it, contributes exactly
\* what it yields when scanned alone; the scan itself never raises.
C4_FailingFileIsolated ==
    (pc = "parse") =>
        /\ components = Joined(1, 1, rootIdx).components
        /\ enums = Joined(1, 1, rootIdx).enums
        /\ warnings = Joined(1, 1, rootIdx).warnings
        /\ \A n \in 1..rootIdx : \A k \in 1..Len(roots[n]) :
            ~ roots[n][k].readable =>
                /\ Alone(n, k).components = <<>>
                /\ Alone(n, k).enums = <<>>
                /\ Alone(n, k).warnings = << <<"Failed to parse", <<n, k>> >> >>

\* a scanned directory in which a file that parses follows a failing one
C4_Witness ==
    /\ pc = "parse" /\ rootIdx = Len(roots)
    /\ \E n \in 1..rootIdx : \E k \in 1..Len(roots[n]) :
        /\ ~ roots[n][k].readable
        /\ \E m \in (k + 1)..Len(roots[n]) :
            roots[n][m].readable /\ Alone(n, m).components # <<>>
    /\ components # <<>>
    /\ warnings # <<>>

\* the statements of main's program of the given kind
Statements(kind) ==
    {Program(tool)[k] : k \in {j \in 1..Len(Program(tool)) :
                                 Program(tool)[j][1] = kind}}

\* C5: main returns 1 exactly when the merged schema has no components,
\* whether or not enums were found, and then nothing was generated, created
\* or written and nothing was raised; every other completed run returns 0
\* with every artifact written.
C5_ExitStatus ==
    /\ (pc = "done") =>
        /\ exitCode \in {0, 1}
        /\ (exitCode = 1) <=> (components = <<>>)
        /\ (exitCode = 1) => (log = <<>> /\ step = 0)
        /\ (exitCode = 0) => (Statements("write") \subseteq Range(log))
    /\ (components = <<>> /\ rootIdx = Len(roots)) =>
        (pc \in {"parse", "done"} /\ log = <<>>)

\* a run that found enums but no component and returned 1
C5_Witness ==
    /\ pc = "done" /\ exitCode = 1
    /\ enums # <<>>
    /\ \E n \in 1..Len(roots) : roots[n] # <<>>

\* C6: with a non-empty schema every backend is invoked whatever happens to
\* the others: when the run has ended, by returning or by an exception, every
\* generator has been run and every artifact whose directory exists has been
\* written.
C6_BackendsIndependent ==
    (pc \in {"done", "raised"} /\ components # <<>>) =>
        /\ Statements("generate") \subseteq Range(log)
        /\ \A w \in Statements("write") :
                w[2] \in dirs => w \in Range(log)

\* C23: before main writes a backend artifact it has created the artifact's
\* output directory if absent: for every artifact written in a run
\* (native-embedding, declaration file, scripting-engine) a mkdir of its
\* directory precedes the write.
C23_MkdirBeforeWrite ==
    \A j \in 1..Len(log) :
        log[j][1] = "write" =>
            \E i \in 1..(j - 1) :
                log[i][1] = "mkdir" /\ log[i][2] = log[j][2]

\* the same of eht.py alone, which creates both of its directories
MkdirBeforeWrite_eht == (tool = "eht") => C23_MkdirBeforeWrite

\* C14: component names are unique across the whole scan: main never takes
\* a schema holding two components of the same name to the emitters (a
\* collision ends the run before).  Two files of the same text declare the
\* same names, so their components at the same position have the same name.
C14_ComponentNamesUnique ==
    (pc \in {"emit", "done", "raised"}) =>
        \A i, j \in 1..Len(components) :
            i # j => components[i].name # components[j].name

\* the enums of all files of all input roots, in scan order
AllEnums == Joined(1, 1, Len(roots)).enums

\* C15: main of eht builds every TypeSystem only after the last
\* parse_directory call has returned, from the enums of all files of all
\* roots: whatever file or root declares an enum, later than a component
\* that uses it or not, every TypeSystem holds it.
C15_TypeSystemAfterAllParsing ==
    /\ (types # <<>> \/ pc = "emit") => rootIdx = Len(roots)
    /\ \A t \in 1..Len(types) :
        /\ types[t] = AllEnums
        /\ \A n \in 1..Len(roots) : \A k \in 1..Len(roots[n]) :
                Range(Alone(n, k).enums) \subseteq Range(types[t])

\* both generators built, for a component of the first root and an enum
\* declared in a later root
C15_Witness ==
    /\ tool = "eht" /\ Len(types) = 2
    /\ \E k \in 1..Len(roots[1]) : Alone(1, k).components # <<>>
    /\ \A k \in 1..Len(roots[1]) : Alone(1, k).enums = <<>>
    /\ \E n \in 2..Len(roots) : \E k \in 1..Len(roots[n]) :
            Alone(n, k).enums # <<>>

(***************************************************************************)
(* Claims about the TypeSystem and EmbindGenerator.                        *)
(***************************************************************************)
EnumNames == TypeSystem_enum_names(enums)

\* the category of a type by the classification rules taken in their order
\* of priority: primitive, math value type, enum, handle, else unsupported
\* (skip-listed or not)
Classify(cpp_type) ==
    LET t == TypeSystem_clean_type(cpp_type)
    IN  IF t \in PRIMITIVE_TYPES THEN "Primitive"
        ELSE IF t \in GLM_TYPES THEN "ValueMathType"
        ELSE IF TypeSystem_is_enum(t, EnumNames) THEN "Enum"
        ELSE IF TypeSystem_is_handle(t) THEN "Handle"
        ELSE "Unsupported"

\* the categories whose membership test the cleaned type passes, each test
\* taken alone; Unsupported is what passes none of the first four
Categories(cpp_type) ==
    LET t == TypeSystem_clean_type(cpp_type)
        named ==
            {c \in {"Primitive", "ValueMathType", "Enum", "Handle", "Skip"} :
                \/ (c = "Primitive" /\ t \in PRIMITIVE_TYPES)
                \/ (c = "ValueMathType" /\ t \in GLM_TYPES)
                \/ (c = "Enum" /\ TypeSystem_is_enum(t, EnumNames))
                \/ (c = "Handle" /\ TypeSystem_is_handle(t))
                \/ (c = "Skip" /\ TypeSystem_is_skip(t))}
    IN  IF named = {} THEN {"Unsupported"} ELSE named

\* the components handed to the emitter, and their properties; components
\* of the same name have the same properties
Comps == Range(components)

Props == UNION {Range(c.properties) : c \in Comps}

\* the lines of the document of the given kinds
LinesOf(kinds) == {l \in Range(doc) : l.kind \in kinds}

\* the lines of the given kinds about the component c
LinesAbout(c, kinds) == {l \in LinesOf(kinds) : l.comp = c.name}

\* the properties that have a line of one of the given kinds
PropsIn(kinds) == {l.prop : l \in LinesOf(kinds)}

\* C7: needs_wrapper(C) is true exactly when a property of C classifies as
\* Enum-reference or OpaqueHandle, and EmbindGenerator emits the shadow
\* record of C (the struct and both converters) exactly when needs_wrapper(C)
\* holds; a component whose properties are all Primitive, ValueMathType or
\* Unsupported gets none of the three.
C7_ShadowIffEnumOrHandle ==
    (pc = "embind") =>
        \A c \in Comps :
        LET needs == TypeSystem_needs_wrapper(c, EnumNames)
            some  == \E p \in Range(c.properties) :
                        Classify(p.cpp_type) \in {"Enum", "Handle"}
        IN  /\ needs <=> some
            /\ needs => /\ Cardinality(LinesAbout(c, {"struct_open"})) = 1
                        /\ Cardinality(LinesAbout(c, {"fromJS_open"})) = 1
                        /\ Cardinality(LinesAbout(c, {"toJS_open"})) = 1
            /\ ~ some => LinesAbout(c, {"struct_open", "struct_field",
                                        "fromJS_open", "toJS_open"}) = {}

\* a component with a handle property and no enum property, wrapped
C7_Witness ==
    /\ pc = "embind"
    /\ \E p \in Props : Classify(p.cpp_type) = "Handle"
    /\ ~ \E p \in Props : Classify(p.cpp_type) = "Enum"
    /\ \E p \in Props : Classify(p.cpp_type) \in {"Primitive", "Unsupported"}
    /\ LinesOf({"struct_open"}) # {}

\* C8: the membership tests of TypeSystem give every cleaned type exactly
\* one category, never none and never two at once.
C8_ExactlyOneCategory ==
    (pc = "embind") =>
        \A p \in Props : Cardinality(Categories(p.cpp_type)) = 1

\* C9: a type matching both the enum rule and the handle rule is treated as
\* an enum: its shadow field has the enum projection i32 and both converters
\* use the enum cast.
C9_EnumBeforeHandle ==
    (pc = "embind") =>
        \A p \in Props :
            (/\ TypeSystem_is_enum(p.cpp_type, EnumNames)
             /\ TypeSystem_is_handle(p.cpp_type)
             /\ ~ TypeSystem_is_skip(p.cpp_type)) =>
                /\ TypeSystem_get_js_type(p.cpp_type, EnumNames) = <<"i32">>
                /\ \A l \in LinesOf({"struct_field"}) :
                        l.prop = p.name => l.type = <<"i32">>
                /\ p.name \in PropsIn({"fromJS_enum"})
                /\ p.name \in PropsIn({"toJS_enum"})

\* C10: a property is left out of the binding statement and of the shadow
\* record exactly when its type classifies as Unsupported, so the enum and
\* handle properties of a wrapped component are all in its shadow record.
C10_OmittedIffUnsupported ==
    (pc = "embind") =>
        \A c \in Comps : \A p \in Range(c.properties) :
            /\ (p.name \notin PropsIn({"field"})) <=>
                    (Classify(p.cpp_type) = "Unsupported")
            /\ TypeSystem_needs_wrapper(c, EnumNames) =>
                    ((p.name \notin PropsIn({"struct_field"})) <=>
                        (Classify(p.cpp_type) = "Unsupported"))

(***************************************************************************)
(* Claims about the TypeScript declarations of tools/eht.py.               *)
(***************************************************************************)
\* the keys of CPP_TO_TS that no classification rule names
TableOnly == { <<"std::string">>, <<"Entity">> }

\* the type the interface line of property p shows is ts
ShownAs(p, ts) ==
    \A l \in LinesOf({"ts_field"}) : l.prop = p.name => l.type = ts

\* C11 as stated: every type that classifies as Unsupported (no primitive,
\* no math value type, no enum name, no handle) has the TypeScript type
\* 'any', and its interface line shows 'any'.
C11_UnsupportedIsAny ==
    (pc = "ts") =>
        \A p \in Props :
            (Classify(p.cpp_type) = "Unsupported") =>
                /\ TypeSystem_to_typescript(p.cpp_type, EnumNames) = <<"any">>
                /\ ShownAs(p, <<"any">>)

\* C11 amended: every type that classifies as Unsupported has the TypeScript
\* type 'any', and its interface line shows 'any', unless its cleaned form
\* is one of the two keys of CPP_TO_TS outside every category: std::string
\* has the type 'string' and Entity the type 'number'.
C11_UnsupportedOutsideTableIsAny ==
    (pc = "ts") =>
        \A p \in Props :
            (Classify(p.cpp_type) = "Unsupported") =>
                LET t  == TypeSystem_clean_type(p.cpp_type)
                    ts == IF t = <<"std::string">> THEN <<"string">>
                          ELSE IF t = <<"Entity">> THEN <<"number">>
                          ELSE <<"any">>
                IN  /\ TypeSystem_to_typescript(p.cpp_type, EnumNames) = ts
                    /\ ShownAs(p, ts)

\* an interface with a field of an unknown type, shown as 'any', next to a
\* std::string field
C11_Witness ==
    /\ pc = "ts"
    /\ \E p \in Props :
        /\ Classify(p.cpp_type) = "Unsupported"
        /\ TypeSystem_clean_type(p.cpp_type) \notin TableOnly
        /\ \E l \in LinesOf({"ts_field"}) :
                l.prop = p.name /\ l.type = <<"any">>
    /\ \E p \in Props : TypeSystem_clean_type(p.cpp_type) = <<"std::string">>

\* the lines of the document of the given kind about the given enum, in the
\* document's order
EnumLines(kind, enum) ==
    SelectSeq(doc, LAMBDA l : l.kind = kind /\ l.enum = enum.name)

\* C13: for every enum with n values, TypeScriptGenerator._gen_enums emits
\* exactly n members, and the i-th declared value is assigned the number
\* i - 1: the numbers are 0..n-1 in declared order, none skipped or repeated.
C13_MembersNumberedFromZero ==
    (pc = "ts") =>
        \A e \in 1..Len(enums) :
            LET members == EnumLines("ts_enum_member", enums[e])
            IN  /\ Len(EnumLines("ts_enum_open", enums[e])) = 1
                /\ Len(members) = Len(enums[e].values)
                /\ \A k \in 1..Len(members) :
                    /\ members[k].value = enums[e].values[k]
                    /\ members[k].num = k - 1

\* the declaration of an enum of four values next to one of none
C13_Witness ==
    /\ pc = "ts"
    /\ \E e \in 1..Len(enums) :
        /\ Len(enums[e].values) = 4
        /\ \E l \in LinesOf({"ts_enum_member"}) :
                l.value = enums[e].values[4] /\ l.num = 3
    /\ \E e \in 1..Len(enums) :
        /\ enums[e].values = <<>>
        /\ Len(EnumLines("ts_enum_open", enums[e])) = 1

\* the include lines of the document, in the document's order
IncludeLines == SelectSeq(doc, LAMBDA l : l.kind = "include")

\* the headers of the components, in the schema's order
SchemaHeaders == [k \in 1..Len(components) |-> components[k].header_path]

\* C16: each emitter is deterministic: a second run of generate() of the
\* same generator on the same schema returns the document the first run
\* returned, whatever order the second run meets the elements of its sets
\* in; this holds for EmbindGenerator, TypeScriptGenerator,
\* EmscriptenGenerator and QuickJSGenerator alike.
C16_SameSchemaSameDocument ==
    [][(pc # "schema" /\ pc' = pc) => doc' = doc]_vars

\* EmbindGenerator has run on components whose headers stand in the schema
\* against their sorted order, so that its set of includes has orders that
\* differ
C16_Witness ==
    /\ pc = "embind"
    /\ Len(IncludeLines) >= 2
    /\ \E i, j \in 1..Len(components) :
        /\ i < j
        /\ "src/esengine/" \in Range(SchemaHeaders[i])
        /\ "src/esengine/" \in Range(SchemaHeaders[j])
        /\ StrLess(SchemaHeaders[j], SchemaHeaders[i])

\* the document of a generator that collects the headers of the components
HasComponentIncludes == pc \in {"embind", "emscripten", "quickjs"}

\* C17: in every emitter that collects component header includes
\* (EmbindGenerator._gen_includes, EmscriptenGenerator.generate,
\* QuickJSGenerator.generate) each distinct header is emitted exactly once
\* and the include lines appear in sorted order, whatever the order of the
\* components in the schema: every include line is before the next one in
\* the order of their texts.
C17_IncludesSortedOnce ==
    HasComponentIncludes =>
        \A k \in 1..(Len(IncludeLines) - 1) :
            StrLess(IncludeLines[k].path, IncludeLines[k + 1].path)

\* the same of the one generator of eht.py
EmbindIncludesSorted ==
    (pc = "embind") =>
        \A k \in 1..(Len(IncludeLines) - 1) :
            StrLess(IncludeLines[k].path, IncludeLines[k + 1].path)

\* no generator emits a header twice
IncludesOnce ==
    HasComponentIncludes =>
        \A j, k \in 1..Len(IncludeLines) :
            j # k => IncludeLines[j].path # IncludeLines[k].path

\* the components the lines of the given kind are about, in the document's
\* order
ComponentsOf(kind) ==
    LET ls == SelectSeq(doc, LAMBDA l : l.kind = kind)
    IN  [k \in 1..Len(ls) |-> ls[k].comp]

\* the component and property the lines of the given kinds are about, in
\* the document's order
FieldsOf(kinds) ==
    LET ls == SelectSeq(doc, LAMBDA l : l.kind \in kinds)
    IN  [k \in 1..Len(ls) |-> <<ls[k].comp, ls[k].prop>>]

\* the names of the schema's components from the c-th on that have a
\* section, in the schema's order
RECURSIVE SchemaComponents(_, _)
SchemaComponents(has(_), c) ==
    IF c > Len(components) THEN <<>>
    ELSE (IF has(components[c]) THEN <<components[c].name>> ELSE <<>>)
         \o SchemaComponents(has, c + 1)

\* the emitted properties of the schema's components from the c-th on that
\* have a section, component by component in the schema's order and
\* property by property in declaration order
RECURSIVE SchemaFields(_, _, _, _)
SchemaFields(has(_), emitted(_), mark(_, _), c) ==
    IF c > Len(components) THEN <<>>
    ELSE (IF has(components[c])
          THEN LET ps == SelectSeq(components[c].properties, emitted)
               IN  [k \in 1..Len(ps) |-> mark(components[c], ps[k])]
          ELSE <<>>)
         \o SchemaFields(has, emitted, mark, c + 1)

Every(x) == TRUE

Wrapped(comp) == TypeSystem_needs_wrapper(comp, EnumNames)

Bound(p) == ~ TypeSystem_is_skip(p.cpp_type)

Field(comp, p) == <<comp.name, p.name>>

\* a property of the getter trampoline: its field, or the placeholder that
\* stands in its place and names no property
FieldOrTodo(comp, p) ==
    IF QuickJS_converter(p.type) = "todo" THEN <<"", 0>> ELSE Field(comp, p)

\* the types the placeholders of the document name, in the document's order
TodoTypes ==
    LET ls == SelectSeq(doc, LAMBDA l : l.kind = "qjs_get_todo")
    IN  [k \in 1..Len(ls) |-> ls[k].type]

\* the types of the properties without converter, in the schema's order
RECURSIVE SchemaTodoTypes(_)
SchemaTodoTypes(c) ==
    IF c > Len(components) THEN <<>>
    ELSE LET ps == SelectSeq(components[c].properties,
                      LAMBDA p : QuickJS_converter(p.type) = "todo")
         IN  [k \in 1..Len(ps) |-> ps[k].type] \o SchemaTodoTypes(c + 1)

\* C18: in every section an emitter produces per component (value_object
\* bindings, registry facade, TypeScript interfaces, QuickJS trampolines)
\* the components appear in the schema's order, and within each component
\* the emitted fields, and the TODO placeholders standing for fields, appear
\* in property declaration order, with no reordering.
C18_SchemaOrderKept ==
    /\ (pc = "embind") =>
        /\ ComponentsOf("struct_open") = SchemaComponents(Wrapped, 1)
        /\ ComponentsOf("value_object") = SchemaComponents(Every, 1)
        /\ ComponentsOf("reg_has") = SchemaComponents(Every, 1)
        /\ FieldsOf({"struct_field"}) = SchemaFields(Wrapped, Bound, Field, 1)
        /\ FieldsOf({"field"}) = SchemaFields(Every, Bound, Field, 1)
    /\ (pc = "ts") =>
        /\ ComponentsOf("ts_interface_open") = SchemaComponents(Every, 1)
        /\ ComponentsOf("ts_has") = SchemaComponents(Every, 1)
        /\ ComponentsOf("ts_module_entry") = SchemaComponents(Every, 1)
        /\ FieldsOf({"ts_field"}) = SchemaFields(Every, Bound, Field, 1)
    /\ (pc = "emscripten") =>
        /\ ComponentsOf("em_value_object") = SchemaComponents(Every, 1)
        /\ ComponentsOf("em_reg_has") = SchemaComponents(Every, 1)
        /\ FieldsOf({"em_field"}) = SchemaFields(Every, Every, Field, 1)
    /\ (pc = "dts") =>
        /\ ComponentsOf("dts_interface_open") = SchemaComponents(Every, 1)
        /\ ComponentsOf("dts_has") = SchemaComponents(Every, 1)
        /\ FieldsOf({"dts_field"}) = SchemaFields(Every, Every, Field, 1)
    /\ (pc = "quickjs") =>
        /\ ComponentsOf("qjs_title") = SchemaComponents(Every, 1)
        /\ ComponentsOf("qjs_bind_get") = SchemaComponents(Every, 1)
        /\ FieldsOf({"qjs_get_prop", "qjs_get_todo"})
              = SchemaFields(Every, Every, FieldOrTodo, 1)
        /\ TodoTypes = SchemaTodoTypes(1)
        /\ FieldsOf({"qjs_set_val"}) = SchemaFields(Every, Every, Field, 1)

\* a document about two components of different names, the first of them
\* with several fields: of EmbindGenerator with a skipped property between
\* two bound ones, and of QuickJSGenerator with a placeholder between two
\* fields
C18_Witness ==
    /\ Len(components) >= 2
    /\ components[1].name # components[2].name
    /\ Len(components[1].properties) >= 3
    /\ \/ /\ pc = "embind"
          /\ Len(FieldsOf({"field"})) >= 2
          /\ Len(FieldsOf({"field"})) < Len(components[1].properties)
       \/ /\ pc = "quickjs"
          /\ FieldsOf({"qjs_get_prop", "qjs_get_todo"})
                = << <<"Sprite", 1>>, <<"", 0>>, <<"Sprite", 3>> >>

\* both documents of the witness are reached
C18_WitnessQuickJS == C18_Witness /\ pc = "quickjs"

\* C19: the schema is immutable once produced: a call of generate() on any
\* emitter leaves the components list, every component's property list and
\* the enums list as they were (same elements, same order, same field
\* values).
C19_SchemaUnchanged ==
    [][components' = components /\ enums' = enums]_vars

\* two emitters have run on a schema with an enum and with a component that
\* has a property the emitters pass over
C19_Witness ==
    /\ Len(log) >= 2
    /\ enums # <<>>
    /\ \E c \in Comps : \E p \in Range(c.properties) :
            TypeSystem_is_skip(p.cpp_type)
    /\ components = given.components
    /\ enums = given.enums

\* the documents the generator that ran last returns when it is the only
\* one run on the schema the emitters were given
AloneDocuments ==
    CASE pc = "embind" ->
           {EmbindGenerator_generate(given.components, given.enums, order) :
              order \in IterationOrders(Embind_headers(given.components))}
      [] pc = "ts" ->
           {TypeScriptGenerator_generate(given.components, given.enums)}
      [] pc = "emscripten" ->
           {EmscriptenGenerator_generate(given.components)}
      [] pc = "dts" ->
           {GB_TypeScriptGenerator_generate(given.components)}
      [] pc = "quickjs" ->
           {QuickJSGenerator_generate(given.components)}
      [] OTHER -> {doc}

\* the generator that ran last, as the log names it
LastGenerator ==
    CASE pc = "embind"     -> "EmbindGenerator"
      [] pc = "ts"         -> "TypeScriptGenerator"
      [] pc = "emscripten" -> "EmscriptenGenerator"
      [] pc = "dts"        -> "TypeScriptGenerator"
      [] pc = "quickjs"    -> "QuickJSGenerator"
      [] OTHER             -> ""

Positions(kind) ==
    SelectSeq([i \in 1..Len(doc) |-> i], LAMBDA i : doc[i].kind = kind)

\* the lines from the k-th line of kind open to the first line of kind shut
\* after it
Section(open, shut, k) ==
    LET a == Positions(open)[k]
        b == CHOOSE j \in a..Len(doc) :
                /\ doc[j].kind = shut
                /\ \A m \in a..(j - 1) : doc[m].kind # shut
    IN  SubSeq(doc, a, b)

\* the lines of the getter trampoline of the k-th component between the
\* creation of the object and its return
GetterBody(k) ==
    LET lines == Section("qjs_get_open", "qjs_return_obj", k)
        from  == CHOOSE j \in 1..Len(lines) : lines[j].kind = "qjs_new_object"
    IN  SubSeq(lines, from + 1, Len(lines) - 1)

\* C21: in the QuickJS getter trampoline generated for a component every
\* property yields exactly one emitted line, either a converter call
\* marshalling the field or a placeholder comment naming the property's
\* type: the body has one line per property, in their order, and no
\* property is dropped.
C21_GetterLinePerProperty ==
    (pc = "quickjs") =>
        /\ Len(Positions("qjs_get_open")) = Len(components)
        /\ \A c \in 1..Len(components) :
            LET ps   == components[c].properties
                body == GetterBody(c)
            IN  /\ doc[Positions("qjs_get_open")[c]].comp = components[c].name
                /\ Len(body) = Len(ps)
                /\ \A k \in 1..Len(ps) :
                    \/ /\ body[k].kind = "qjs_get_prop"
                       /\ body[k].prop = ps[k].name
                       /\ body[k].bind \in {"vec3", "quat", "f32"}
                    \/ /\ body[k].kind = "qjs_get_todo"
                       /\ body[k].type = ps[k].type

\* a getter of a component that has a property with a converter and one
\* without
C21_Witness ==
    /\ pc = "quickjs"
    /\ \E c \in 1..Len(components) :
        /\ \E l \in Range(GetterBody(c)) : l.kind = "qjs_get_todo"
        /\ \E l \in Range(GetterBody(c)) : l.kind = "qjs_get_prop"

\* the lines of the setter trampoline of the k-th component up to the call
\* of emplaceOrReplace
SetterBody(k) == Section("qjs_add_open", "qjs_add_emplace", k)

\* the property is assigned in the setter body: a line reads it from the
\* input value and a later line converts it and assigns it to comp
AssignedIn(body, p) ==
    \E i, j \in 1..Len(body) :
        /\ i < j
        /\ body[i].kind = "qjs_set_val" /\ body[i].prop = p.name
        /\ body[j].kind \in {"qjs_set_convert", "qjs_set_cast"}
        /\ body[j].prop = p.name

\* the setter body has a placeholder comment about the property's type
MarkedIn(body, p) ==
    \E i \in 1..Len(body) :
        body[i].kind = "qjs_get_todo" /\ body[i].type = p.type

\* C22: in the QuickJS setter trampoline generated for a component every
\* property is read from the input value, converted and assigned to the
\* component before emplaceOrReplace is called; a property whose type has
\* no converter is not left unassigned without any marker.
C22_SetterAssignsOrMarks ==
    (pc = "quickjs") =>
        \A c \in 1..Len(components) :
            \A p \in Range(components[c].properties) :
                AssignedIn(SetterBody(c), p) \/ MarkedIn(SetterBody(c), p)

\* what the setter does hold: every property with a converter is assigned
\* before emplaceOrReplace, and every property is read and freed
SetterAssignsConverted ==
    (pc = "quickjs") =>
        \A c \in 1..Len(components) :
            \A p \in Range(components[c].properties) :
                /\ \E l \in Range(SetterBody(c)) :
                        l.kind = "qjs_set_val" /\ l.prop = p.name
                /\ QuickJS_converter(p.type) # "todo"
                        => AssignedIn(SetterBody(c), p)

\* the document holds the shadow record of the component and both of its
\* converters
Shadowed(c) ==
    /\ LinesAbout(c, {"struct_open"}) # {}
    /\ LinesAbout(c, {"fromJS_open"}) # {}
    /\ LinesAbout(c, {"toJS_open"}) # {}

\* the statements that name the record a component is bound as: the
\* value_object binding and its fields, the registry getter and the
\* registry adder
RecordUses ==
    {"value_object", "field", "reg_get", "reg_get_body", "reg_add",
     "reg_add_body"}

\* C25: for every component in EmbindGenerator's output shadow-record use is
\* consistent: the value_object binding registers <Name>JS, the registry
\* getter returns <name>ToJS(...) and the registry adder accepts <Name>JS and
\* calls <name>FromJS(...) if and only if the shadow record and both
\* converters were generated for that component; otherwise all three use the
\* real record.  No statement names a shadow record or converter that was
\* not emitted.
C25_ShadowUseConsistent ==
    (pc = "embind") =>
        \A c \in Comps :
            /\ LinesAbout(c, {"struct_open", "fromJS_open", "toJS_open"}) # {}
                  => Shadowed(c)
            /\ \A kind \in {"value_object", "reg_get", "reg_get_body",
                            "reg_add", "reg_add_body"} :
                    LinesAbout(c, {kind}) # {}
            /\ \A l \in LinesAbout(c, RecordUses) :
                    l.bind = IF Shadowed(c) THEN "JS" ELSE "full"

\* a document about a component bound as its shadow record and another
\* bound as the real record
C25_Witness ==
    /\ pc = "embind"
    /\ \E c \in Comps : Shadowed(c)
    /\ \E c \in Comps : ~ Shadowed(c)

\* the trampolines the document defines, and those bindECS wires
Defined == UNION {QuickJS_defines(l) : l \in Range(doc)}

Wired == UNION {QuickJS_wires(l) : l \in Range(doc)}

\* C26: in QuickJSGenerator's output the set of trampoline functions wired
\* into the registry object by bindECS equals the set of trampoline
\* functions the document defines: every generated trampoline is wired, and
\* every function wired (the entity-lifecycle slots create, destroy and
\* valid included) is defined by the document.
C26_WiredEqualsDefined ==
    (pc = "quickjs") => Wired = Defined

\* what does hold: every generated trampoline is wired, and the wired
\* functions the document does not define are the three lifecycle slots
WiredAllDefined ==
    (pc = "quickjs") =>
        /\ Defined \subseteq Wired
        /\ Wired \ Defined
              = { <<"create", "">>, <<"destroy", "">>, <<"valid", "">> }

\* the two documents eht.py makes of the schema: the one in doc when its
\* generator ran last, and otherwise the one its generator returns
EmbindDocument ==
    IF pc = "embind" THEN doc
    ELSE EmbindGenerator_generate(components, enums,
            CHOOSE order \in IterationOrders(Embind_headers(components)) :
                TRUE)

TypeScriptDocument ==
    IF pc = "ts" THEN doc
    ELSE TypeScriptGenerator_generate(components, enums)

\* the field names the lines of a kind give the component, in the order of
\* the document d
FieldNames(d, kind, c) ==
    LET ls == SelectSeq(d, LAMBDA l : l.kind = kind /\ l.comp = c.name)
    IN  [k \in 1..Len(ls) |-> ls[k].prop]

\* the registry operations of the document d, each named by its slot and
\* its component
Operations(d, slots) ==
    {<<slots[l.kind], l.comp>> :
        l \in {m \in Range(d) : m.kind \in DOMAIN slots}}

EmbindSlots ==
    [k \in {"reg_has", "reg_get", "reg_add", "reg_remove"} |->
        CASE k = "reg_has" -> "has" [] k = "reg_get" -> "get"
          [] k = "reg_add" -> "add" [] OTHER -> "remove"]

TypeScriptSlots ==
    [k \in {"ts_has", "ts_get", "ts_add", "ts_remove"} |->
        CASE k = "ts_has" -> "has" [] k = "ts_get" -> "get"
          [] k = "ts_add" -> "add" [] OTHER -> "remove"]

\* C27: the backends of eht.py stay consistent with one schema: for every
\* component the sequence of field names of the embind value_object binding
\* equals that of the TypeScript interface (and that of the shadow record
\* when one is generated), and the registry operations has / get / add /
\* remove<Name> the embind registry registers are exactly those the
\* TypeScript Registry interface declares.
C27_BackendsAgree ==
    (tool = "eht" /\ pc \in {"embind", "ts"}) =>
        LET e == EmbindDocument
            t == TypeScriptDocument
            registered == Operations(e, EmbindSlots)
        IN  /\ \A c \in Comps :
                LET declared == FieldNames(t, "ts_field", c)
                IN  /\ FieldNames(e, "field", c) = declared
                    /\ FieldNames(e, "struct_open", c) # <<>>
                          => FieldNames(e, "struct_field", c) = declared
            /\ registered = Operations(t, TypeScriptSlots)
            /\ registered = {"has", "get", "add", "remove"}
                                \X {c.name : c \in Comps}

\* both generators have run on a schema with a component that has a shadow
\* record, several bound fields and a property neither backend binds
C27_Witness ==
    /\ tool = "eht" /\ pc = "ts" /\ Len(log) = 2
    /\ \E c \in Comps :
        /\ FieldNames(EmbindDocument, "struct_open", c) # <<>>
        /\ Len(FieldNames(doc, "ts_field", c)) >= 2
        /\ \E p \in Range(c.properties) : TypeSystem_is_skip(p.cpp_type)

\* a nested call of pack_font has sized its atlas: the step from the call
\* made by a retry to its loop
RetryMeasured == pc = "call" /\ pc' = "pack" /\ pack.calls >= 1

\* C24: pack_font terminates for every glyph set and every maximum atlas
\* size: whenever the atlas is found full while its width is below the
\* maximum, the retry runs with a strictly larger atlas width than the
\* failed attempt, so that the number of retries is bounded and the call
\* eventually returns.
C24_RetryWidens ==
    [][RetryMeasured => pack'.atlas_width > pack.atlas_width]_vars

\* what the retry does: its atlas is as wide as the one that was full, so
\* the retry finds its atlas full at the same glyph and retries in turn
RetrySameWidth ==
    [][RetryMeasured => /\ pack'.atlas_width = pack.atlas_width
                        /\ pack'.atlas_width < pack'.atlas_size]_vars

\* no call of pack_font that followed a retry has returned
RetryNeverReturns ==
    (pc \in {"save", "returned", "raised"}) => pack.calls = 1

\* the metrics entries: the glyphs pack_font has recorded
Recorded == {pack.glyphs[k] : k \in 1..Len(pack.glyphs)}

\* C28: every glyph that pack_font records in the metrics lies inside the
\* atlas: 0 <= x, x + width <= atlas_width, 0 <= y and
\* y + height <= atlas_height (so that u0, v0, u1 and v1 are within [0, 1]),
\* for every glyph size, glyphs wider than the atlas included.
C28_GlyphsInsideAtlas ==
    \A g \in Recorded :
        /\ 0 <= g.x /\ g.x + g.width <= pack.atlas_width
        /\ 0 <= g.y /\ g.y + g.height <= pack.atlas_height

\* what does hold: every recorded glyph is inside the atlas from top to
\* bottom, and from left to right unless it is wider than a row has room for
GlyphsInsideUnlessTooWide ==
    \A g \in Recorded :
        /\ 0 <= g.x
        /\ 0 <= g.y /\ g.y + g.height + pack.padding <= pack.atlas_height
        /\ \/ g.x + g.width + pack.padding <= pack.atlas_width
           \/ /\ g.x = pack.padding
              /\ g.width + 2 * pack.padding > pack.atlas_width

\* two recorded glyphs are apart by at least the padding, side by side or
\* one above the other
Apart(g, h) ==
    \/ g.x + g.width + pack.padding <= h.x
    \/ h.x + h.width + pack.padding <= g.x
    \/ g.y + g.height + pack.padding <= h.y
    \/ h.y + h.height + pack.padding <= g.y

\* C29: the row-based packing of pack_font never overlaps glyphs: after any
\* number of placements the rectangles of any two glyphs recorded in the
\* metrics are disjoint and at least the padding apart, within a row and
\* between consecutive rows.
C29_GlyphsDisjoint ==
    \A i, j \in 1..Len(pack.glyphs) :
        i < j => Apart(pack.glyphs[i], pack.glyphs[j])

\* three glyphs with a size are recorded, two in one row and one in the next,
\* the later row below a glyph that is taller than the one that opened it
C29_Witness ==
    /\ Len(pack.glyphs) = 3
    /\ \A k \in 1..3 : pack.glyphs[k].width > 0 /\ pack.glyphs[k].height > 0
    /\ pack.glyphs[1].y = pack.glyphs[2].y
    /\ pack.glyphs[2].x > pack.glyphs[1].x
    /\ pack.glyphs[3].y > pack.glyphs[1].y
    /\ pack.padding > 0

\* C30: pack_font reports success (returns True, exit status 0) only if
\* every glyph that was loaded has been placed in the atlas and has an entry
\* in the metrics; when the atlas is full at the maximum size and glyphs
\* remain, the call reports failure.
C30_TrueOnlyIfAllPlaced ==
    (pack.result = "True" \/ (tool = "pack_font" /\ exitCode = 0))
        => Len(pack.glyphs) = Len(pack.glyph_data)

\* what does hold: the outputs are saved and True is returned whenever a glyph
\* was loaded and the call comes to its end, whatever was placed; False is
\* returned only when no glyph was loaded
TrueWheneverReturned ==
    (tool = "pack_font" /\ pc = "returned")
        => /\ pack.result = "True" <=> pack.glyph_data # <<>>
           /\ pack.result = "True" => pack.saved /\ exitCode = 0
           /\ pack.result = "False" <=> pack.glyph_data = <<>>

=============================================================================
